---- MODULE Spec2Model ----
(***************************************************************************)
(* Proxy quality evaluation engine of script/proxy_updater.py:             *)
(* LatencyStatistics, ProxyEvaluator, EnhancedLatencyTester and            *)
(* find_best_proxy_by_latency_enhanced.                                    *)
(*                                                                         *)
(* Number representation.  Latency samples are whole milliseconds.         *)
(* Derived latency statistics (mean, median, percentiles, iqr, ...) are    *)
(* fixed-point values in hundredths of a millisecond, so the percentile    *)
(* interpolation of integer samples is exact.  Scores, rates and the       *)
(* coefficient of variation are fixed-point values in units of 1/One.      *)
(* Weights are hundredths (0.4 is 40).  Python's None is the value None;   *)
(* an exception leaving a scoring function is the value Raised.            *)
(***************************************************************************)
EXTENDS Integers, Sequences, FiniteSets, TLC

\* ------------------------------------------------------------------ bounds
MaxCands == 2
MaxConcurrency == 2
BatchSamples == 3
MaxUrls == 3
MaxTestCount == 4
MaxMixedSamples == 4
MaxRecs == 3
PoolUrls == 2
MaxStatLen == 4
MaxChannels == 3

\* --------------------------------------------------------- representation
One == 10000
None == -1
Raised == -2

\* ------------------------------------------------------ program constants
min_samples == 3
FallbackUrlCount == 2
FallbackTestCount == 3

\* ------------------------------------------------------------ arithmetic
Max2(a, b) == IF a >= b THEN a ELSE b
Min2(a, b) == IF a <= b THEN a ELSE b
Abs(a) == IF a < 0 THEN -a ELSE a

RECURSIVE Sum(_)
Sum(s) == IF s = <<>> THEN 0 ELSE Head(s) + Sum(Tail(s))

RECURSIVE IsqrtIter(_, _, _)
IsqrtIter(x, lo, hi) ==
    IF lo >= hi THEN lo
    ELSE LET mid == (lo + hi + 1) \div 2
         IN IF mid * mid <= x THEN IsqrtIter(x, mid, hi)
                               ELSE IsqrtIter(x, lo, mid - 1)
Isqrt(x) == IsqrtIter(x, 0, Min2(x, 46340))

RECURSIVE InsertAsc(_, _)
InsertAsc(x, s) ==
    IF s = <<>> THEN <<x>>
    ELSE IF x < Head(s) THEN <<x>> \o s
    ELSE <<Head(s)>> \o InsertAsc(x, Tail(s))

RECURSIVE sorted(_)
sorted(s) == IF s = <<>> THEN <<>> ELSE InsertAsc(Head(s), sorted(Tail(s)))

\* ------------------------------------------------------ LatencyStatistics
\* statistics.mean, in hundredths of a millisecond
mean(data) == (Sum(data) * 100) \div Len(data)

\* statistics.median, in hundredths of a millisecond (exact)
median(data) ==
    LET s == sorted(data)
        n == Len(s)
    IN IF n % 2 = 1 THEN s[(n + 1) \div 2] * 100
       ELSE (s[n \div 2] + s[n \div 2 + 1]) * 50

\* statistics.stdev (sample standard deviation), in tenths of a millisecond:
\* sum over pairs of (xi - xj)^2 = n * sum(x^2) - sum(x)^2
stdev(data) ==
    LET n == Len(data)
        pairs == {p \in (1..n) \X (1..n) : p[1] < p[2]}
        sq(p) == (data[p[1]] - data[p[2]]) * (data[p[1]] - data[p[2]])
        RECURSIVE SumPairs(_)
        SumPairs(S) == IF S = {} THEN 0
                       ELSE LET p == CHOOSE q \in S : TRUE
                            IN sq(p) + SumPairs(S \ {p})
    IN Isqrt((SumPairs(pairs) \div (n * (n - 1))) * 100)

\* std_dev / mean as a fixed-point ratio
CvOf(data) == (stdev(data) * Len(data) * (One \div 10)) \div Sum(data)

\* variant: the element at the floor index, without interpolation
percentile_floor(sorted_data, q) ==
    IF sorted_data = <<>> THEN None
    ELSE IF q <= 0 THEN sorted_data[1] * 100
    ELSE IF q >= 100 THEN sorted_data[Len(sorted_data)] * 100
    ELSE sorted_data[((Len(sorted_data) - 1) * q) \div 100 + 1] * 100

percentile(sorted_data, q) ==
    IF sorted_data = <<>> THEN None
    ELSE IF q <= 0 THEN sorted_data[1] * 100
    ELSE IF q >= 100 THEN sorted_data[Len(sorted_data)] * 100
    ELSE LET idx100 == (Len(sorted_data) - 1) * q
             lower_index == idx100 \div 100
             weight == idx100 % 100
             upper_index == IF weight = 0 THEN lower_index ELSE lower_index + 1
         IN IF lower_index = upper_index THEN sorted_data[lower_index + 1] * 100
            ELSE sorted_data[lower_index + 1] * (100 - weight)
                 + sorted_data[upper_index + 1] * weight

\* variant: only the lowest samples are dropped
trimmed_mean_low(data, trim_pct) ==
    IF data = <<>> THEN None
    ELSE IF trim_pct <= 0 THEN mean(data)
    ELSE LET sorted_data == sorted(data)
             n == Len(sorted_data)
             trim_count == (n * trim_pct) \div 100
         IN IF trim_count * 2 >= n THEN median(data)
            ELSE mean(SubSeq(sorted_data, trim_count + 1, n))

trimmed_mean(data, trim_pct) ==
    IF data = <<>> THEN None
    ELSE IF trim_pct <= 0 THEN mean(data)
    ELSE LET sorted_data == sorted(data)
             n == Len(sorted_data)
             trim_count == (n * trim_pct) \div 100
         IN IF trim_count * 2 >= n THEN median(data)
            ELSE mean(SubSeq(sorted_data, trim_count + 1, n - trim_count))

calculate_basic_stats(latencies) ==
    IF latencies = <<>>
    THEN [mean_latency_ms |-> None, median_latency_ms |-> None,
          min_latency_ms |-> None, max_latency_ms |-> None,
          p25_latency_ms |-> None, p75_latency_ms |-> None,
          p95_latency_ms |-> None, p99_latency_ms |-> None]
    ELSE LET sorted_latencies == sorted(latencies)
         IN [mean_latency_ms |-> mean(latencies),
             median_latency_ms |-> median(latencies),
             min_latency_ms |-> sorted_latencies[1] * 100,
             max_latency_ms |-> sorted_latencies[Len(latencies)] * 100,
             p25_latency_ms |-> percentile(sorted_latencies, 25),
             p75_latency_ms |-> percentile(sorted_latencies, 75),
             p95_latency_ms |-> percentile(sorted_latencies, 95),
             p99_latency_ms |-> percentile(sorted_latencies, 99)]

\* variant: fewer than 2 samples give 0 instead of None
calculate_variability_stats_zero(latencies) ==
    IF Len(latencies) < 2
    THEN [std_dev_ms |-> 0, coefficient_variation |-> 0, iqr_ms |-> 0,
          robust_std_dev_ms |-> 0, mad_ms |-> 0]
    ELSE LET sorted_latencies == sorted(latencies)
             med == median(latencies)
             mad == median([i \in 1..Len(latencies) |->
                               Abs(latencies[i] * 100 - med)]) \div 100
         IN [std_dev_ms |-> stdev(latencies) * 10,
             coefficient_variation |->
                 IF mean(latencies) > 0 THEN CvOf(latencies) ELSE None,
             iqr_ms |-> percentile(sorted_latencies, 75)
                        - percentile(sorted_latencies, 25),
             robust_std_dev_ms |-> ((mad \div 100) * 14826) \div 100,
             mad_ms |-> mad]

calculate_variability_stats(latencies) ==
    IF Len(latencies) < 2
    THEN [std_dev_ms |-> None, coefficient_variation |-> None, iqr_ms |-> None,
          robust_std_dev_ms |-> None, mad_ms |-> None]
    ELSE LET sorted_latencies == sorted(latencies)
             med == median(latencies)
             mad == median([i \in 1..Len(latencies) |->
                               Abs(latencies[i] * 100 - med)]) \div 100
         IN [std_dev_ms |-> stdev(latencies) * 10,
             coefficient_variation |->
                 IF mean(latencies) > 0 THEN CvOf(latencies) ELSE None,
             iqr_ms |-> percentile(sorted_latencies, 75)
                        - percentile(sorted_latencies, 25),
             robust_std_dev_ms |-> ((mad \div 100) * 14826) \div 100,
             mad_ms |-> mad]

calculate_robustness_stats(latencies) ==
    IF latencies = <<>>
    THEN [consistency_score |-> None, stability_index |-> None,
          outlier_ratio |-> None, trimmed_mean_ms |-> None]
    ELSE LET n == Len(latencies)
             mean_latency == mean(latencies)
             sorted_latencies == sorted(latencies)
             p25 == percentile(sorted_latencies, 25)
             p75 == percentile(sorted_latencies, 75)
             iqr == p75 - p25
             \* x < p25 - 1.5 * iqr  or  x > p75 + 1.5 * iqr, doubled
             outlier(x) == \/ 200 * x < 2 * p25 - 3 * iqr
                           \/ 200 * x > 2 * p75 + 3 * iqr
         IN [consistency_score |->
                 IF n >= 2 /\ mean_latency > 0
                 THEN (One * One) \div (One + CvOf(latencies))
                 ELSE One,
             stability_index |->
                 IF mean_latency > 0
                 THEN (One * One) \div
                      (One + (iqr * (One \div 100)) \div (mean_latency \div 100))
                 ELSE One,
             outlier_ratio |->
                 (Cardinality({i \in 1..n : outlier(latencies[i])}) * One)
                 \div n,
             trimmed_mean_ms |-> trimmed_mean(latencies, 10)]

\* variant: a sample equal to the threshold counts as a spike
calculate_api_performance_stats_ge(latencies, success_rate, spike_threshold_ms, timeout_threshold_ms) ==
    IF latencies = <<>>
    THEN [spike_rate |-> None, timeout_risk_score |-> None,
          availability_stability |-> success_rate, qos_score |-> None,
          sustained_performance_score |-> None]
    ELSE LET n == Len(latencies)
             spike(x) == x >= spike_threshold_ms
             spike_rate ==
                 (Cardinality({i \in 1..n : spike(latencies[i])}) * One) \div n
             p95 == percentile(sorted(latencies), 95)
             timeout_risk_score ==
                 Min2(One, (p95 * (One \div 100)) \div timeout_threshold_ms)
             mean_latency == mean(latencies)
             latency_score ==
                 Max2(0, One - (mean_latency * (One \div 100)) \div 5000)
             stability_score ==
                 IF n >= 2
                 THEN (One * One) \div
                      (One + (IF mean_latency > 0 THEN CvOf(latencies) ELSE 0))
                 ELSE One
         IN [spike_rate |-> spike_rate,
             timeout_risk_score |-> timeout_risk_score,
             availability_stability |-> success_rate,
             qos_score |-> (latency_score * 40 + stability_score * 35
                            + success_rate * 25) \div 100,
             sustained_performance_score |->
                 ((One - spike_rate) * 30 + (One - timeout_risk_score) * 30
                  + stability_score * 40) \div 100]

calculate_api_performance_stats(latencies, success_rate, spike_threshold_ms, timeout_threshold_ms) ==
    IF latencies = <<>>
    THEN [spike_rate |-> None, timeout_risk_score |-> None,
          availability_stability |-> success_rate, qos_score |-> None,
          sustained_performance_score |-> None]
    ELSE LET n == Len(latencies)
             spike(x) == x > spike_threshold_ms
             spike_rate ==
                 (Cardinality({i \in 1..n : spike(latencies[i])}) * One) \div n
             p95 == percentile(sorted(latencies), 95)
             timeout_risk_score ==
                 Min2(One, (p95 * (One \div 100)) \div timeout_threshold_ms)
             mean_latency == mean(latencies)
             latency_score ==
                 Max2(0, One - (mean_latency * (One \div 100)) \div 5000)
             stability_score ==
                 IF n >= 2
                 THEN (One * One) \div
                      (One + (IF mean_latency > 0 THEN CvOf(latencies) ELSE 0))
                 ELSE One
         IN [spike_rate |-> spike_rate,
             timeout_risk_score |-> timeout_risk_score,
             availability_stability |-> success_rate,
             qos_score |-> (latency_score * 40 + stability_score * 35
                            + success_rate * 25) \div 100,
             sustained_performance_score |->
                 ((One - spike_rate) * 30 + (One - timeout_risk_score) * 30
                  + stability_score * 40) \div 100]

\* ---------------------------------------------------------- ErrorHandler
\* variant: the success-rate test is missing
should_use_fallback_strategy_norate(successful_samples, total_samples) ==
    IF total_samples = 0 THEN TRUE ELSE successful_samples < min_samples

should_use_fallback_strategy(successful_samples, total_samples) ==
    IF total_samples = 0 THEN TRUE
    ELSE LET success_rate == (successful_samples * One) \div total_samples
         IN \/ successful_samples < min_samples
            \/ success_rate < (3 * One) \div 10

\* -------------------------------------------------------- ProxyEvaluator
\* max(0, 1 - x / ceiling) for x in hundredths of a millisecond
LatencyScore(x, ceiling) == Max2(0, One - (x * (One \div 100)) \div ceiling)

\* variant: the upper clamp is missing
ClampNoUpper(x) == Max2(0, x)

Clamp(x) == Min2(One, Max2(0, x))

\* dict.get(key, default) returns the stored None when the key is present, and
\* arithmetic on None raises TypeError
calculate_performance_score(basic_stats) ==
    IF \/ basic_stats.mean_latency_ms = None
       \/ basic_stats.p95_latency_ms = None
       \/ basic_stats.median_latency_ms = None
    THEN Raised
    ELSE Clamp((LatencyScore(basic_stats.mean_latency_ms, 5000) * 50
                + LatencyScore(basic_stats.p95_latency_ms, 8000) * 30
                + LatencyScore(basic_stats.median_latency_ms, 4000) * 20)
               \div 100)

calculate_stability_score(variability_stats, robustness_stats) ==
    LET cv == variability_stats.coefficient_variation
        consistency_score == robustness_stats.consistency_score
        outlier_ratio == robustness_stats.outlier_ratio
    IN IF cv = None \/ outlier_ratio = None THEN Raised
       ELSE LET cv_score == (One * One) \div (One + cv)
                consistency ==
                    IF consistency_score # None THEN consistency_score ELSE 0
                outlier_score == One - outlier_ratio
            IN Clamp((cv_score * 40 + consistency * 35 + outlier_score * 25)
                     \div 100)

calculate_availability_score(success_rate, api_performance_stats) ==
    LET timeout_risk == api_performance_stats.timeout_risk_score
    IN IF timeout_risk = None THEN Raised
       ELSE Clamp((success_rate * 60
                   + api_performance_stats.availability_stability * 25
                   + (One - timeout_risk) * 15) \div 100)

calculate_composite_score(weights, stats) ==
    LET performance_score == calculate_performance_score(stats.basic_stats)
        stability_score ==
            calculate_stability_score(stats.variability_stats,
                                      stats.robustness_stats)
        availability_score ==
            calculate_availability_score(stats.success_rate,
                                         stats.api_performance)
    IN IF \/ performance_score = Raised
          \/ stability_score = Raised
          \/ availability_score = Raised
       THEN Raised
       ELSE Clamp((performance_score * weights.performance
                   + stability_score * weights.stability
                   + availability_score * weights.availability) \div 100)

calculate_qos_score(weights, stats) ==
    IF stats.api_performance.qos_score # None
    THEN stats.api_performance.qos_score
    ELSE calculate_composite_score(weights, stats)

\* variant: the ranking evaluator was built without the configured weights
RescoreDefault(weights, proxy) ==
    IF proxy.is_working /\ proxy.has_stats
    THEN [proxy EXCEPT
             !.composite_score =
                 calculate_composite_score(
                     [performance |-> 40, stability |-> 35, availability |-> 25],
                     proxy.enhanced_stats),
             !.qos_score = calculate_qos_score(weights, proxy.enhanced_stats)]
    ELSE [proxy EXCEPT !.composite_score = 0, !.qos_score = 0]

\* rank_proxies, the scoring loop: the scores one record is given
Rescore(weights, proxy) ==
    IF proxy.is_working /\ proxy.has_stats
    THEN [proxy EXCEPT
             !.composite_score =
                 calculate_composite_score(weights, proxy.enhanced_stats),
             !.qos_score = calculate_qos_score(weights, proxy.enhanced_stats)]
    ELSE [proxy EXCEPT !.composite_score = 0, !.qos_score = 0]

RescoreAll(weights, proxy_results) ==
    [i \in 1..Len(proxy_results) |-> Rescore(weights, proxy_results[i])]

\* variant: strict comparison, which reverses records with equal keys
KeyGT(x, y) ==
    \/ x.is_working /\ ~y.is_working
    \/ x.is_working = y.is_working /\ x.composite_score > y.composite_score

\* the sort key (is_working, composite_score) compared as Python tuples
KeyGE(x, y) ==
    \/ x.is_working /\ ~y.is_working
    \/ x.is_working = y.is_working /\ x.composite_score >= y.composite_score

\* sorted(..., reverse=True) is stable: equal keys keep their input order
RECURSIVE InsertDesc(_, _)
InsertDesc(x, s) ==
    IF s = <<>> THEN <<x>>
    ELSE IF KeyGE(x, Head(s)) THEN <<x>> \o s
    ELSE <<Head(s)>> \o InsertDesc(x, Tail(s))

RECURSIVE SortDesc(_)
SortDesc(s) ==
    IF s = <<>> THEN <<>> ELSE InsertDesc(Head(s), SortDesc(Tail(s)))

rank_proxies(weights, proxy_results) ==
    SortDesc(RescoreAll(weights, proxy_results))

\* rank_proxies lets the TypeError of calculate_composite_score through
RankRaises(weights, proxy_results) ==
    \E i \in 1..Len(proxy_results) :
        Rescore(weights, proxy_results[i]).composite_score = Raised

\* variant: the QoS floor is not tested
select_best_proxy_noqos(weights, proxy_results, min_composite_score, min_qos_score) ==
    LET ranked == rank_proxies(weights, proxy_results)
        strict(proxy) == /\ proxy.is_working
                         /\ proxy.composite_score >= min_composite_score
        working(proxy) == proxy.is_working
    IN IF SelectSeq(ranked, strict) # <<>>
       THEN <<Head(SelectSeq(ranked, strict))>>
       ELSE IF SelectSeq(ranked, working) # <<>>
       THEN <<Head(SelectSeq(ranked, working))>>
       ELSE <<>>

\* select_best_proxy: <<proxy>>, or <<>> for None
select_best_proxy(weights, proxy_results, min_composite_score, min_qos_score) ==
    LET ranked == rank_proxies(weights, proxy_results)
        strict(proxy) == /\ proxy.is_working
                         /\ proxy.composite_score >= min_composite_score
                         /\ proxy.qos_score >= min_qos_score
        working(proxy) == proxy.is_working
    IN IF SelectSeq(ranked, strict) # <<>>
       THEN <<Head(SelectSeq(ranked, strict))>>
       ELSE IF SelectSeq(ranked, working) # <<>>
       THEN <<Head(SelectSeq(ranked, working))>>
       ELSE <<>>

\* ------------------------------------------------- EnhancedLatencyTester
calculate_enhanced_stats(cfg, latencies, working_tests, total_tests) ==
    LET success_rate ==
            IF total_tests > 0 THEN (working_tests * One) \div total_tests ELSE 0
    IN [basic_stats |-> calculate_basic_stats(latencies),
        variability_stats |-> calculate_variability_stats(latencies),
        robustness_stats |-> calculate_robustness_stats(latencies),
        api_performance |->
            calculate_api_performance_stats(latencies, success_rate,
                cfg.latency_spike_threshold_ms, cfg.timeout * 1000),
        success_rate |-> success_rate]

\* enhanced_stats of a record that carries none
NoStats == calculate_enhanced_stats(
               [latency_spike_threshold_ms |-> 1000, timeout |-> 10],
               <<>>, 0, 0)

\* A result dict.  Keys a dict does not carry hold the value dict.get
\* returns for them: has_stats = FALSE (enhanced_stats None or absent),
\* is_fallback = FALSE, success_rate = 0, avg_latency_ms = None,
\* error = "" (no 'error' key).
Record(proxy, is_working, avg, success_rate, test_count, working_tests, has_stats, stats, is_fallback, error, composite, qos) ==
    [proxy |-> proxy, is_working |-> is_working, avg_latency_ms |-> avg,
     success_rate |-> success_rate, test_count |-> test_count,
     working_tests |-> working_tests, has_stats |-> has_stats,
     enhanced_stats |-> stats, is_fallback |-> is_fallback, error |-> error,
     composite_score |-> composite, qos_score |-> qos]

create_failed_result(proxy, total_tests) ==
    Record(proxy, FALSE, None, 0, total_tests, 0, FALSE, NoStats, FALSE, "",
           0, 0)

\* the dict batch_test_proxies appends for a malformed address or a task
\* that raised
ErrorRecord(proxy, error) ==
    Record(proxy, FALSE, None, 0, 0, 0, FALSE, NoStats, FALSE, error, 0, 0)

\* the working result dict built by measure_proxy_latency_enhanced
\* (is_fallback = FALSE) and by _fallback_test (is_fallback = TRUE)
WorkingResult(cfg, proxy, latencies, working_tests, total_tests, is_fallback) ==
    LET enhanced_stats ==
            calculate_enhanced_stats(cfg, latencies, working_tests,
                                     total_tests)
    IN Record(proxy, TRUE, enhanced_stats.basic_stats.mean_latency_ms,
              enhanced_stats.success_rate, total_tests, working_tests, TRUE,
              enhanced_stats, is_fallback, "",
              calculate_composite_score(cfg.weights, enhanced_stats),
              calculate_qos_score(cfg.weights, enhanced_stats))

\* ------------------------------------------------------------------ state
VARIABLES
    config,     \* TestConfig plus the arguments of find_best_proxy_by_latency_enhanced
    proxies,    \* the (ip_port, user) list handed to find_best_proxy_by_latency_enhanced
    net,        \* how each candidate answers its probes (the environment)
    pc,         \* position of the calling thread
    submit_i,   \* next candidate of the submit loop of batch_test_proxies
    future_map, \* candidates whose task was submitted to the executor
    collected,  \* futures already yielded by as_completed
    results,    \* the results list of batch_test_proxies
    task,       \* per candidate: the frame of measure_proxy_latency_enhanced
    working_proxies, \* the filtered list of find_best_proxy_by_latency_enhanced
    ranked_proxies,  \* the list rank_proxies returned
    best_proxy, \* the return value (a one-element or empty sequence)
    done_order, \* the candidates in the order their futures finished
    snapshot,   \* the futures already finished when as_completed was called
    cache,      \* last_md5 of the cache file (None: no file, or not readable)
    remote,     \* what the list host, the channel API and the disk do (the environment)
    frame,      \* the local variables of main
    api         \* the channel API: the PUT requests received, the channels updated

vars == <<config, proxies, net, pc, submit_i, future_map, collected, results,
          task, working_proxies, ranked_proxies, best_proxy, done_order,
          snapshot, cache, remote, frame, api>>

\* the state of main, which find_best_proxy_by_latency_enhanced never touches
mainvars == <<cache, remote, frame, api>>

Latencies == {100, 4000, 6000}

DefaultWeights == [performance |-> 40, stability |-> 35, availability |-> 25]

\* the environment variables with nothing set: what os.getenv(name, default)
\* gives after int() or float()
DefaultEnv ==
    [MAX_PROXY_TEST_COUNT |-> 5, MIN_SUCCESS_RATE |-> (8 * One) \div 10,
     MAX_LATENCY_MS |-> 5000, TEST_COUNT |-> 3, TEST_TIMEOUT |-> 10,
     TEST_CONCURRENCY |-> 5, LATENCY_TEST_SAMPLES |-> 5,
     LATENCY_TEST_URLS_COUNT |-> 3]

\* TestConfig() with no environment variable set, and the keyword defaults
\* of find_best_proxy_by_latency_enhanced
DefaultConfig ==
    [env |-> DefaultEnv, test_count |-> 3,
     latency_test_samples |-> 5, test_urls |-> 3,
     latency_spike_threshold_ms |-> 1000, weights |-> DefaultWeights,
     timeout |-> 10, concurrency |-> 5, max_test_count |-> 5,
     min_success_rate |-> (8 * One) \div 10, max_latency_ms |-> 5000,
     min_composite_score |-> (6 * One) \div 10,
     min_qos_score |-> (5 * One) \div 10]

\* variant: the list is not cut
candidates_all == proxies

\* candidates = proxies[:max_test_count]; a negative stop counts from the end
candidates ==
    IF config.max_test_count >= 0
    THEN SubSeq(proxies, 1, Min2(Len(proxies), config.max_test_count))
    ELSE SubSeq(proxies, 1, Max2(0, Len(proxies) + config.max_test_count))
Cands == 1..Len(candidates)

total_tests == config.test_urls * config.latency_test_samples
total_fallback_tests == FallbackUrlCount * FallbackTestCount

\* the frame of a task that has not run
\* url and i are the loop variables of the pass that is running (url counts
\* from 1, i from 0 as range does), in_flight the number of requests the
\* task is waiting for, issued the <<url, i>> of every request sent so far
NewTask(c) ==
    [st |-> "none", url |-> 1, i |-> 0, in_flight |-> 0, issued |-> <<>>,
     probes |-> 0, working_tests |-> 0, all_results |-> <<>>,
     fb_issued |-> <<>>,
     fb_probes |-> 0, fb_working_tests |-> 0, fallback_results |-> <<>>,
     result |-> create_failed_result(c, 0), error |-> "",
     evals |-> 0, eval_pass |-> "", eval_samples |-> <<>>]

\* ------------------------------------------------------------- the prober
\* What requests.get does: it returns a response with a status code and an
\* elapsed time (whole milliseconds; 0 is the timedelta that tests false),
\* or it raises Timeout, ProxyError, ConnectionError or another exception.
Response(status_code, elapsed) ==
    [kind |-> "response", status_code |-> status_code, elapsed |-> elapsed]
Raises(kind) == [kind |-> kind, status_code |-> None, elapsed |-> None]

Exceptions == {"Timeout", "ProxyError", "ConnectionError", "Exception"}

\* variant: status 400 counts as working
test_proxy_connectivity_400(outcome) ==
    IF outcome.kind = "response"
    THEN LET latency_ms ==
                 IF outcome.elapsed # 0 THEN outcome.elapsed ELSE None
         IN IF /\ 200 <= outcome.status_code
               /\ outcome.status_code <= 400
               /\ latency_ms # None
            THEN [is_working |-> TRUE, latency_ms |-> latency_ms,
                  status_code |-> outcome.status_code, error |-> "None"]
            ELSE [is_working |-> FALSE, latency_ms |-> latency_ms,
                  status_code |-> outcome.status_code, error |-> "HTTP"]
    ELSE [is_working |-> FALSE, latency_ms |-> None, status_code |-> None,
          error |-> CASE outcome.kind = "Timeout" -> "Timeout"
                      [] outcome.kind = "ProxyError" -> "Proxy Error"
                      [] outcome.kind = "ConnectionError" -> "Connection Error"
                      [] OTHER -> "str(e)"]

\* test_proxy_connectivity: the dict returned for what requests.get did
test_proxy_connectivity(outcome) ==
    IF outcome.kind = "response"
    THEN LET latency_ms ==
                 IF outcome.elapsed # 0 THEN outcome.elapsed ELSE None
         IN IF /\ 200 <= outcome.status_code
               /\ outcome.status_code < 400
               /\ latency_ms # None
            THEN [is_working |-> TRUE, latency_ms |-> latency_ms,
                  status_code |-> outcome.status_code, error |-> "None"]
            ELSE [is_working |-> FALSE, latency_ms |-> latency_ms,
                  status_code |-> outcome.status_code, error |-> "HTTP"]
    ELSE [is_working |-> FALSE, latency_ms |-> None, status_code |-> None,
          error |-> CASE outcome.kind = "Timeout" -> "Timeout"
                      [] outcome.kind = "ProxyError" -> "Proxy Error"
                      [] outcome.kind = "ConnectionError" -> "Connection Error"
                      [] OTHER -> "str(e)"]

\* the answers of a proxy to the k-th request of a pass
ModeOutcomes(mode, lats, k) ==
    CASE mode = "up" -> {Response(200, l) : l \in lats}
      [] mode = "down" -> {Raises("Timeout")}
      [] mode = "one" -> IF k = 1 THEN {Response(200, l) : l \in lats}
                         ELSE {Raises("Timeout")}
      [] OTHER -> {Response(200, l) : l \in lats}
                  \cup {Raises("Timeout"), Response(503, 100)}

requests_get(c, pass, k) ==
    ModeOutcomes(IF pass = "primary" THEN net[c].primary ELSE net[c].fallback,
                 net[c].lats, k)

\* ------------------------------------------------- batch_test_proxies
Running == {c \in Cands : task[c].st \in {"sampling", "fallback"}}
Queued == {c \in Cands : task[c].st = "queued"}

\* ThreadPoolExecutor(max_workers=concurrency) raises ValueError for
\* max_workers <= 0
CreateExecutor ==
    /\ pc = "start"
    /\ pc' = IF config.concurrency <= 0 THEN "raised"
             ELSE IF Len(candidates) = 0 THEN "collect" ELSE "submit"
    /\ snapshot' = {}
    /\ UNCHANGED <<mainvars, config, proxies, net, done_order, submit_i, future_map,
                   collected, results, task, working_proxies, ranked_proxies,
                   best_proxy>>

AfterSubmit == IF submit_i = Len(candidates) THEN "collect" ELSE "submit"

\* as_completed(future_map) is called when the submit loop has ended: the
\* futures finished by then
FinishedAt(after) ==
    IF after = "collect"
    THEN {c \in future_map : task[c].st \in {"done", "raised"}}
    ELSE {}

\* ip_port.split(":") gave two parts: the task is submitted
Submit ==
    /\ pc = "submit"
    /\ candidates[submit_i].valid
    /\ task' = [task EXCEPT ![submit_i].st = "queued"]
    /\ future_map' = future_map \cup {submit_i}
    /\ submit_i' = submit_i + 1
    /\ pc' = AfterSubmit
    /\ snapshot' = FinishedAt(AfterSubmit)
    /\ UNCHANGED <<mainvars, config, proxies, net, done_order, collected, results,
                   working_proxies, ranked_proxies, best_proxy>>

\* except ValueError: the failed record is appended at once
SubmitInvalid ==
    /\ pc = "submit"
    /\ ~candidates[submit_i].valid
    /\ results' = Append(results, ErrorRecord(submit_i, "Invalid ip:port format"))
    /\ submit_i' = submit_i + 1
    /\ pc' = AfterSubmit
    /\ snapshot' = FinishedAt(AfterSubmit)
    /\ UNCHANGED <<mainvars, config, proxies, net, done_order, future_map, collected,
                   task, working_proxies, ranked_proxies, best_proxy>>

\* variant: a task starts although every worker is busy
TaskStartUnbounded(c) ==
    /\ c \in Queued
    /\ \A d \in Queued : c <= d
    /\ task' = [task EXCEPT ![c].st = "sampling"]
    /\ UNCHANGED <<mainvars, config, proxies, net, done_order, snapshot, pc, submit_i,
                   future_map, collected, results, working_proxies,
                   ranked_proxies, best_proxy>>

\* a worker thread takes the oldest queued task
TaskStart(c) ==
    /\ c \in Queued
    /\ \A d \in Queued : c <= d
    /\ Cardinality(Running) < config.concurrency
    /\ task' = [task EXCEPT ![c].st = "sampling"]
    /\ UNCHANGED <<mainvars, config, proxies, net, done_order, snapshot, pc, submit_i,
                   future_map, collected, results, working_proxies,
                   ranked_proxies, best_proxy>>

\* for test_url in test_urls: for i in range(test_count): the loops have
\* run out (an empty range leaves every outer iteration without a request)
LoopsDone(t, urls, count) == t.url > urls \/ count <= 0

\* the loop variables after the body of iteration (url, i)
Advance(t, count) ==
    IF t.i + 1 < count THEN [t EXCEPT !.i = @ + 1]
    ELSE [t EXCEPT !.url = @ + 1, !.i = 0]

\* the sampling loop of measure_proxy_latency_enhanced calls
\* test_proxy_connectivity, which sends the request and blocks
Probe(c) ==
    /\ task[c].st = "sampling"
    /\ task[c].in_flight = 0
    /\ ~LoopsDone(task[c], config.test_urls, config.latency_test_samples)
    /\ task' = [task EXCEPT
          ![c].in_flight = @ + 1,
          ![c].issued = Append(@, <<task[c].url, task[c].i>>)]
    /\ UNCHANGED <<mainvars, config, proxies, net, done_order, snapshot, pc, submit_i,
                   future_map, collected, results, working_proxies,
                   ranked_proxies, best_proxy>>

\* variant: the latency list is one list shared by the tasks that are sampling
ProbeReturnShared(c) ==
    /\ task[c].st = "sampling"
    /\ task[c].in_flight > 0
    /\ \E outcome \in requests_get(c, "primary", task[c].probes + 1) :
          LET result == test_proxy_connectivity(outcome)
              counted == result.is_working /\ result.latency_ms # None
              own == Advance([task[c] EXCEPT
                         !.in_flight = @ - 1,
                         !.probes = @ + 1,
                         !.working_tests = IF counted THEN @ + 1 ELSE @,
                         !.all_results =
                             IF counted THEN Append(@, result.latency_ms) ELSE @],
                         config.latency_test_samples)
          IN task' = [d \in DOMAIN task |->
                 IF d = c THEN own
                 ELSE IF counted /\ task[d].st = "sampling"
                 THEN [task[d] EXCEPT !.all_results = Append(@, result.latency_ms)]
                 ELSE task[d]]
    /\ UNCHANGED <<mainvars, config, proxies, net, done_order, snapshot, pc, submit_i,
                   future_map, collected, results, working_proxies,
                   ranked_proxies, best_proxy>>

\* the request ends, test_proxy_connectivity returns and the loop body counts
\* the sample
ProbeReturn(c) ==
    /\ task[c].st = "sampling"
    /\ task[c].in_flight > 0
    /\ \E outcome \in requests_get(c, "primary", task[c].probes + 1) :
          LET result == test_proxy_connectivity(outcome)
              counted == result.is_working /\ result.latency_ms # None
          IN task' = [task EXCEPT ![c] =
                 Advance([@ EXCEPT
                     !.in_flight = @ - 1,
                     !.probes = @ + 1,
                     !.working_tests = IF counted THEN @ + 1 ELSE @,
                     !.all_results =
                         IF counted THEN Append(@, result.latency_ms) ELSE @],
                     config.latency_test_samples)]
    /\ UNCHANGED <<mainvars, config, proxies, net, done_order, snapshot, pc, submit_i,
                   future_map, collected, results, working_proxies,
                   ranked_proxies, best_proxy>>

\* the dict a pass returns for the samples it gathered: the failed record
\* when no probe worked, else statistics and scores
PassResult(c, latencies, working_tests, total, is_fallback) ==
    IF working_tests = 0 THEN create_failed_result(c, total)
    ELSE WorkingResult(config, c, latencies, working_tests, total, is_fallback)

\* the frame after the pass has evaluated its samples: the task returns the
\* record, or ends with the TypeError the scoring raised
Finish(t, c, pass, latencies, working_tests, total) ==
    LET r == PassResult(c, latencies, working_tests, total, pass = "fallback")
    IN [t EXCEPT !.st = IF r.composite_score = Raised THEN "raised" ELSE "done",
                 !.result = r,
                 !.error = IF r.composite_score = Raised THEN "TypeError" ELSE "",
                 !.evals = @ + 1, !.eval_pass = pass,
                 !.eval_samples = latencies]

\* use_fallback and should_use_fallback_strategy(...): return _fallback_test(...)
EnterFallback(c) ==
    /\ task[c].st = "sampling"
    /\ task[c].in_flight = 0
    /\ LoopsDone(task[c], config.test_urls, config.latency_test_samples)
    /\ should_use_fallback_strategy(task[c].working_tests, total_tests)
    /\ task' = [task EXCEPT ![c].st = "fallback", ![c].url = 1, ![c].i = 0]
    /\ UNCHANGED <<mainvars, config, proxies, net, done_order, snapshot, pc, submit_i,
                   future_map, collected, results, working_proxies,
                   ranked_proxies, best_proxy>>

\* variant: use_fallback is False, the primary result is final whatever it is
EvaluateNoFallback(c) ==
    /\ task[c].st = "sampling"
    /\ task[c].in_flight = 0
    /\ LoopsDone(task[c], config.test_urls, config.latency_test_samples)
    /\ task' = [task EXCEPT ![c] =
          Finish(@, c, "primary", task[c].all_results, task[c].working_tests,
                 total_tests)]
    /\ done_order' = Append(done_order, c)
    /\ UNCHANGED <<mainvars, config, proxies, net, snapshot, pc, submit_i, future_map,
                   collected, results, working_proxies, ranked_proxies,
                   best_proxy>>

\* the primary result is final: failed record, or statistics and scores
Evaluate(c) ==
    /\ task[c].st = "sampling"
    /\ task[c].in_flight = 0
    /\ LoopsDone(task[c], config.test_urls, config.latency_test_samples)
    /\ ~should_use_fallback_strategy(task[c].working_tests, total_tests)
    /\ task' = [task EXCEPT ![c] =
          Finish(@, c, "primary", task[c].all_results, task[c].working_tests,
                 total_tests)]
    /\ done_order' = Append(done_order, c)
    /\ UNCHANGED <<mainvars, config, proxies, net, snapshot, pc, submit_i, future_map,
                   collected, results, working_proxies, ranked_proxies,
                   best_proxy>>

\* for url in fallback_urls: for _ in range(3): the call of
\* test_proxy_connectivity in _fallback_test
FallbackProbe(c) ==
    /\ task[c].st = "fallback"
    /\ task[c].in_flight = 0
    /\ ~LoopsDone(task[c], FallbackUrlCount, FallbackTestCount)
    /\ task' = [task EXCEPT
          ![c].in_flight = @ + 1,
          ![c].fb_issued = Append(@, <<task[c].url, task[c].i>>)]
    /\ UNCHANGED <<mainvars, config, proxies, net, done_order, snapshot, pc, submit_i,
                   future_map, collected, results, working_proxies,
                   ranked_proxies, best_proxy>>

\* variant: a latency is kept whenever one was captured, also for a probe that
\* is not working
FallbackProbeReturnAnyLatency(c) ==
    /\ task[c].st = "fallback"
    /\ task[c].in_flight > 0
    /\ \E outcome \in requests_get(c, "fallback", task[c].fb_probes + 1) :
          LET result == test_proxy_connectivity(outcome)
              counted == result.is_working /\ result.latency_ms # None
          IN task' = [task EXCEPT ![c] =
                 Advance([@ EXCEPT
                     !.in_flight = @ - 1,
                     !.fb_probes = @ + 1,
                     !.fb_working_tests = IF counted THEN @ + 1 ELSE @,
                     !.fallback_results =
                         IF result.latency_ms # None
                         THEN Append(@, result.latency_ms) ELSE @],
                     FallbackTestCount)]
    /\ UNCHANGED <<mainvars, config, proxies, net, done_order, snapshot, pc, submit_i,
                   future_map, collected, results, working_proxies,
                   ranked_proxies, best_proxy>>

\* the request ends and the loop body of _fallback_test counts the sample
FallbackProbeReturn(c) ==
    /\ task[c].st = "fallback"
    /\ task[c].in_flight > 0
    /\ \E outcome \in requests_get(c, "fallback", task[c].fb_probes + 1) :
          LET result == test_proxy_connectivity(outcome)
              counted == result.is_working /\ result.latency_ms # None
          IN task' = [task EXCEPT ![c] =
                 Advance([@ EXCEPT
                     !.in_flight = @ - 1,
                     !.fb_probes = @ + 1,
                     !.fb_working_tests = IF counted THEN @ + 1 ELSE @,
                     !.fallback_results =
                         IF counted THEN Append(@, result.latency_ms) ELSE @],
                     FallbackTestCount)]
    /\ UNCHANGED <<mainvars, config, proxies, net, done_order, snapshot, pc, submit_i,
                   future_map, collected, results, working_proxies,
                   ranked_proxies, best_proxy>>

\* variant: the fallback pass scores the primary samples together with its own
FallbackEvaluateMixed(c) ==
    /\ task[c].st = "fallback"
    /\ task[c].in_flight = 0
    /\ LoopsDone(task[c], FallbackUrlCount, FallbackTestCount)
    /\ task' = [task EXCEPT ![c] =
          Finish(@, c, "fallback",
                 task[c].all_results \o task[c].fallback_results,
                 task[c].working_tests + task[c].fb_working_tests,
                 total_tests + total_fallback_tests)]
    /\ done_order' = Append(done_order, c)
    /\ UNCHANGED <<mainvars, config, proxies, net, snapshot, pc, submit_i, future_map,
                   collected, results, working_proxies, ranked_proxies,
                   best_proxy>>

\* the tail of _fallback_test
FallbackEvaluate(c) ==
    /\ task[c].st = "fallback"
    /\ task[c].in_flight = 0
    /\ LoopsDone(task[c], FallbackUrlCount, FallbackTestCount)
    /\ task' = [task EXCEPT ![c] =
          Finish(@, c, "fallback", task[c].fallback_results,
                 task[c].fb_working_tests, total_fallback_tests)]
    /\ done_order' = Append(done_order, c)
    /\ UNCHANGED <<mainvars, config, proxies, net, snapshot, pc, submit_i, future_map,
                   collected, results, working_proxies, ranked_proxies,
                   best_proxy>>

\* as_completed yields the futures that were finished when it was called, in
\* no particular order, and then the others in the order they finish
NextCompleted(c) ==
    \/ c \in snapshot
    \/ /\ snapshot \subseteq collected
       /\ \A i, j \in DOMAIN done_order :
             (done_order[j] = c /\ i < j) => done_order[i] \in collected

\* variant: the record of a task that raised is not appended
CollectDropsRaised(c) ==
    /\ pc = "collect"
    /\ c \in future_map \ collected
    /\ task[c].st \in {"done", "raised"}
    /\ NextCompleted(c)
    /\ results' = IF task[c].st = "done" THEN Append(results, task[c].result)
                  ELSE results
    /\ collected' = collected \cup {c}
    /\ UNCHANGED <<mainvars, config, proxies, net, done_order, snapshot, pc, submit_i,
                   future_map, task, working_proxies, ranked_proxies,
                   best_proxy>>

\* one iteration of for future in as_completed(future_map)
Collect(c) ==
    /\ pc = "collect"
    /\ c \in future_map \ collected
    /\ task[c].st \in {"done", "raised"}
    /\ NextCompleted(c)
    /\ results' = Append(results,
                         IF task[c].st = "done" THEN task[c].result
                         ELSE ErrorRecord(c, task[c].error))
    /\ collected' = collected \cup {c}
    /\ UNCHANGED <<mainvars, config, proxies, net, done_order, snapshot, pc, submit_i,
                   future_map, task, working_proxies, ranked_proxies,
                   best_proxy>>

\* the with block ends and batch_test_proxies returns results
BatchReturn ==
    /\ pc = "collect"
    /\ collected = future_map
    /\ pc' = "tested"
    /\ UNCHANGED <<mainvars, config, proxies, net, done_order, snapshot, submit_i,
                   future_map, collected, results, task, working_proxies,
                   ranked_proxies, best_proxy>>

\* ------------------------------ find_best_proxy_by_latency_enhanced, tail
\* variant: the success rate is not tested
QualifiesNoRate(proxy) ==
    /\ proxy.is_working
    /\ proxy.avg_latency_ms # None
    /\ proxy.avg_latency_ms <= config.max_latency_ms * 100

Qualifies(proxy) ==
    /\ proxy.is_working
    /\ proxy.success_rate >= config.min_success_rate
    /\ proxy.avg_latency_ms # None
    /\ proxy.avg_latency_ms <= config.max_latency_ms * 100

\* formatting a None statistic with :.3f raises TypeError
LogRaises(proxy) ==
    \/ proxy.enhanced_stats.basic_stats.mean_latency_ms = None
    \/ proxy.enhanced_stats.variability_stats.coefficient_variation = None
    \/ proxy.enhanced_stats.robustness_stats.consistency_score = None
    \/ proxy.enhanced_stats.api_performance.spike_rate = None

SelectBest ==
    /\ pc = "tested"
    /\ LET filtered == SelectSeq(results, Qualifies)
           best == select_best_proxy(config.weights, filtered,
                                     config.min_composite_score,
                                     config.min_qos_score)
       IN /\ working_proxies' = filtered
          /\ IF filtered = <<>>
             THEN /\ pc' = "returned"
                  /\ UNCHANGED <<results, ranked_proxies, best_proxy>>
             ELSE IF RankRaises(config.weights, filtered)
             THEN /\ pc' = "raised"
                  /\ UNCHANGED <<results, ranked_proxies, best_proxy>>
             ELSE /\ ranked_proxies' = rank_proxies(config.weights, filtered)
                  \* the dicts of the filtered list are those of test_results
                  /\ results' = [i \in 1..Len(results) |->
                                    IF Qualifies(results[i])
                                    THEN Rescore(config.weights, results[i])
                                    ELSE results[i]]
                  /\ best_proxy' = best
                  /\ pc' = IF best # <<>> /\ LogRaises(best[1])
                           THEN "raised" ELSE "returned"
    /\ UNCHANGED <<mainvars, config, proxies, net, done_order, snapshot, submit_i,
                   future_map, collected, task>>

\* -------------------------------------------------------------------- main
\* the variables of the engine other than the position of the calling thread
enginevars == <<config, proxies, net, submit_i, future_map, collected, results,
                task, working_proxies, ranked_proxies, best_proxy, done_order,
                snapshot>>

\* main ends: a return, or one of the except clauses around its body
MainEnds(outcome) ==
    /\ pc' = "exit"
    /\ frame' = [frame EXCEPT !.outcome = outcome]

\* channel_ids = json.loads(CHANNEL_IDS): a JSONDecodeError, or the ValueError
\* raised for a value that is not a list, ends main
MainStart ==
    /\ pc = "main"
    /\ IF remote.channel_ids_ok
       THEN pc' = "fetch" /\ UNCHANGED frame
       ELSE MainEnds("bad CHANNEL_IDS")
    /\ UNCHANGED <<cache, remote, api, enginevars>>

\* variant: the run goes on although the list has not changed
FetchListNoSkip ==
    /\ pc = "fetch"
    /\ IF remote.list = None
       THEN MainEnds("fetch failed")
       ELSE /\ frame' = [frame EXCEPT !.current_md5 = remote.list,
                                      !.cached_md5 = cache]
            /\ pc' = "extract"
    /\ UNCHANGED <<cache, remote, api, enginevars>>

\* requests.get of the list, calculate_content_md5, get_cached_md5 and the
\* comparison; a RequestException is logged and main returns
FetchList ==
    /\ pc = "fetch"
    /\ IF remote.list = None
       THEN MainEnds("fetch failed")
       ELSE IF cache = remote.list
       THEN /\ pc' = "exit"
            /\ frame' = [frame EXCEPT !.current_md5 = remote.list,
                                      !.cached_md5 = cache,
                                      !.outcome = "unchanged"]
       ELSE /\ frame' = [frame EXCEPT !.current_md5 = remote.list,
                                      !.cached_md5 = cache]
            /\ pc' = "extract"
    /\ UNCHANGED <<cache, remote, api, enginevars>>

\* proxies = extract_proxies_by_region(...); if not proxies: return; then the
\* call of find_best_proxy_by_latency_enhanced
ExtractProxies ==
    /\ pc = "extract"
    /\ IF proxies = <<>>
       THEN MainEnds("no proxies")
       ELSE pc' = "start" /\ UNCHANGED frame
    /\ UNCHANGED <<cache, remote, api, enginevars>>

\* find_best_proxy_by_latency_enhanced has returned: if not best_proxy_info:
\* return; else the proxy URL is built and update_channel_proxy is called
BestSelected ==
    /\ pc = "returned"
    /\ IF best_proxy = <<>>
       THEN MainEnds("no best proxy")
       ELSE pc' = "update" /\ frame' = [frame EXCEPT !.i = 1]
    /\ UNCHANGED <<cache, remote, api, enginevars>>

\* except Exception around the body of main
MainExcept ==
    /\ pc = "raised"
    /\ MainEnds("failed")
    /\ UNCHANGED <<cache, remote, api, enginevars>>

\* whether the channel took the new proxy: it did for an OK response, it did
\* not for another response, and a network error leaves it open
Applied(answer) ==
    IF answer = "ok" THEN {TRUE}
    ELSE IF answer = "http" THEN {FALSE}
    ELSE BOOLEAN

\* variant: a failed update is logged and the loop goes on
UpdateChannelContinues ==
    /\ pc = "update"
    /\ frame.i <= Len(remote.answers)
    /\ \E applied \in Applied(remote.answers[frame.i]) :
          api' = [requests |-> Append(api.requests, frame.i),
                  updated |-> IF applied THEN api.updated \cup {frame.i}
                              ELSE api.updated]
    /\ pc' = "update"
    /\ frame' = [frame EXCEPT !.i = @ + 1]
    /\ UNCHANGED <<cache, remote, enginevars>>

\* one iteration of for channel_id in channel_ids: requests.put; a response
\* that is not ok raises Exception, a RequestException is raised again, and
\* either reaches the except Exception of main
UpdateChannel ==
    /\ pc = "update"
    /\ frame.i <= Len(remote.answers)
    /\ \E applied \in Applied(remote.answers[frame.i]) :
          api' = [requests |-> Append(api.requests, frame.i),
                  updated |-> IF applied THEN api.updated \cup {frame.i}
                              ELSE api.updated]
    /\ IF remote.answers[frame.i] = "ok"
       THEN pc' = "update" /\ frame' = [frame EXCEPT !.i = @ + 1]
       ELSE MainEnds("update failed")
    /\ UNCHANGED <<cache, remote, enginevars>>

\* update_channel_proxy returns
UpdateReturn ==
    /\ pc = "update"
    /\ frame.i > Len(remote.answers)
    /\ pc' = "save"
    /\ UNCHANGED <<cache, remote, frame, api, enginevars>>

\* save_cached_md5(current_md5): an IOError is logged and swallowed
SaveCache ==
    /\ pc = "save"
    /\ cache' = IF remote.writable THEN frame.current_md5 ELSE cache
    /\ MainEnds("done")
    /\ UNCHANGED <<remote, api, enginevars>>

\* ------------------------------------- test_proxy_connectivity called once
\* net holds what requests.get does, results the dict returned
ProbeCall ==
    /\ pc = "probe"
    /\ results' = <<test_proxy_connectivity(net[1])>>
    /\ pc' = "probed"
    /\ UNCHANGED <<mainvars, config, proxies, net, done_order, snapshot, submit_i,
                   future_map, collected, task, working_proxies,
                   ranked_proxies, best_proxy>>

\* ------------------------------------ LatencyStatistics called on a list
\* net holds the latency list, results the call and the value it returned
Percentiles == {-10, 0, 1, 25, 50, 75, 95, 99, 100, 150}
TrimRatios == {-10, 0, 10, 25, 40, 50, 60}
SpikeThresholds == {100, 1000}

IsSorted(data) == \A i \in 1..(Len(data) - 1) : data[i] <= data[i + 1]

StatReturn(call, value) ==
    /\ pc = "stats"
    /\ results' = <<[call |-> call, value |-> value]>>
    /\ pc' = "computed"
    /\ UNCHANGED <<mainvars, config, proxies, net, done_order, snapshot, submit_i,
                   future_map, collected, task, working_proxies,
                   ranked_proxies, best_proxy>>

\* _percentile(sorted_data, percentile), called as the code calls it, on a
\* sorted list
PercentileCall ==
    /\ IsSorted(net[1])
    /\ \E q \in Percentiles :
          StatReturn([fn |-> "_percentile", arg |-> q], percentile(net[1], q))

TrimmedMeanCall ==
    \E trim_pct \in TrimRatios :
        StatReturn([fn |-> "_trimmed_mean", arg |-> trim_pct],
                   trimmed_mean(net[1], trim_pct))

RobustnessCall ==
    StatReturn([fn |-> "calculate_robustness_stats", arg |-> None],
               calculate_robustness_stats(net[1]))

ApiPerformanceCall ==
    \E spike_threshold_ms \in SpikeThresholds :
        StatReturn([fn |-> "calculate_api_performance_stats",
                    arg |-> spike_threshold_ms],
                   calculate_api_performance_stats(net[1], One,
                                                   spike_threshold_ms, 10000))

\* ----------------------------- ProxyEvaluator called on a list of records
EvalRank ==
    /\ pc = "eval"
    /\ IF RankRaises(config.weights, results)
       THEN pc' = "raised" /\ UNCHANGED <<results, ranked_proxies>>
       ELSE /\ ranked_proxies' = rank_proxies(config.weights, results)
            /\ results' = RescoreAll(config.weights, results)
            /\ pc' = "ranked"
    /\ UNCHANGED <<mainvars, config, proxies, net, done_order, snapshot, submit_i,
                   future_map, collected, task, working_proxies, best_proxy>>

EvalSelect ==
    /\ pc = "ranked"
    /\ best_proxy' = select_best_proxy(config.weights, results,
                                       config.min_composite_score,
                                       config.min_qos_score)
    /\ pc' = "selected"
    /\ UNCHANGED <<mainvars, config, proxies, net, done_order, snapshot, submit_i,
                   future_map, collected, task, results, working_proxies,
                   ranked_proxies>>

\* ---------------------------------------------------------- initial states
WeightChoices ==
    {DefaultWeights,
     [performance |-> 100, stability |-> 100, availability |-> 100],
     [performance |-> 0, stability |-> 0, availability |-> 100],
     [performance |-> -100, stability |-> 0, availability |-> 0]}

Dead == [lats |-> {100}, primary |-> "down", fallback |-> "down"]

\* the candidates of a batch: a malformed address, or a well-formed one
\* whose proxy answers every probe of a pass the same way
BatchKinds ==
    {[valid |-> FALSE, net |-> Dead],
     [valid |-> TRUE, net |-> Dead],
     [valid |-> TRUE, net |-> [lats |-> {100}, primary |-> "up", fallback |-> "up"]],
     [valid |-> TRUE, net |-> [lats |-> {4000}, primary |-> "up", fallback |-> "up"]],
     [valid |-> TRUE, net |-> [lats |-> {100}, primary |-> "down", fallback |-> "up"]],
     [valid |-> TRUE, net |-> [lats |-> {100}, primary |-> "down", fallback |-> "one"]]}

\* a single candidate whose proxy may answer or fail any probe
TaskKinds ==
    {[valid |-> FALSE, net |-> Dead]}
    \cup {[valid |-> TRUE, net |-> [lats |-> L, primary |-> p, fallback |-> "any"]] :
            L \in {{100}, {4000}, {6000}, {100, 4000}}, p \in {"any", "down"}}

InitEngine(kinds) ==
    /\ proxies = [c \in DOMAIN kinds |-> [valid |-> kinds[c].valid]]
    /\ net = [c \in DOMAIN kinds |-> kinds[c].net]
    /\ submit_i = 1
    /\ future_map = {}
    /\ collected = {}
    /\ results = <<>>
    /\ task = [c \in DOMAIN kinds |-> NewTask(c)]
    /\ working_proxies = <<>>
    /\ ranked_proxies = <<>>
    /\ best_proxy = <<>>
    /\ done_order = <<>>
    /\ snapshot = {}

\* main before it has run: no cache file, nothing fetched, no channel
NewFrame == [current_md5 |-> None, cached_md5 |-> None, i |-> 1, outcome |-> ""]
NoRemote == [list |-> "error", channel_ids_ok |-> TRUE, answers |-> <<>>, writable |-> TRUE]
NewApi == [requests |-> <<>>, updated |-> {}]

\* find_best_proxy_by_latency_enhanced called on its own
MainIdle ==
    /\ cache = None
    /\ remote = NoRemote
    /\ frame = NewFrame
    /\ api = NewApi

InitCommon(kinds) ==
    /\ MainIdle
    /\ pc = "start"
    /\ InitEngine(kinds)

\* a batch of up to MaxCands candidates, one endpoint, BatchSamples samples
Init ==
    /\ \E k \in 0..MaxConcurrency :
          config = [DefaultConfig EXCEPT !.concurrency = k, !.test_urls = 1,
                                         !.latency_test_samples = BatchSamples,
                                         !.max_test_count = MaxCands]
    /\ \E n \in 0..MaxCands : \E kinds \in [1..n -> BatchKinds] :
          InitCommon(kinds)

\* the candidates of a pool run: a malformed address, a proxy that fails every
\* request, one that answers every request, and one whose task raises
PoolKinds ==
    {[valid |-> FALSE, net |-> Dead],
     [valid |-> TRUE, net |-> Dead],
     [valid |-> TRUE, net |-> [lats |-> {100}, primary |-> "up", fallback |-> "up"]],
     [valid |-> TRUE, net |-> [lats |-> {100}, primary |-> "down", fallback |-> "one"]]}

\* a batch of up to MaxCands candidates, PoolUrls endpoints, 2 samples each
InitPool ==
    /\ \E k \in 0..MaxConcurrency :
          config = [DefaultConfig EXCEPT !.concurrency = k,
                                         !.test_urls = PoolUrls,
                                         !.latency_test_samples = 2,
                                         !.max_test_count = MaxCands]
    /\ \E n \in 0..MaxCands : \E kinds \in [1..n -> PoolKinds] :
          InitCommon(kinds)

\* the proxies of a list that may be longer than max_test_count
SliceKinds ==
    {[valid |-> FALSE, net |-> Dead],
     [valid |-> TRUE, net |-> Dead],
     [valid |-> TRUE, net |-> [lats |-> {100}, primary |-> "up", fallback |-> "up"]]}

\* a list of up to MaxCands + 1 proxies of which at most max_test_count,
\* 0..MaxCands, are tested; one endpoint, BatchSamples samples
InitSlice ==
    /\ \E k \in 1..MaxConcurrency, m \in 0..MaxCands :
          config = [DefaultConfig EXCEPT !.concurrency = k, !.test_urls = 1,
                                         !.latency_test_samples = BatchSamples,
                                         !.max_test_count = m]
    /\ \E n \in 0..(MaxCands + 1) : \E kinds \in [1..n -> SliceKinds] :
          InitCommon(kinds)

\* main: TestConfig() reads the environment, and the call
\* find_best_proxy_by_latency_enhanced(proxies, max_test_count=max_test_count)
\* leaves every other keyword at its default
main(env) ==
    [DefaultConfig EXCEPT
        !.env = env,
        !.test_count = env.TEST_COUNT,
        !.latency_test_samples = env.LATENCY_TEST_SAMPLES,
        !.test_urls = Min2(3, env.LATENCY_TEST_URLS_COUNT),
        !.timeout = env.TEST_TIMEOUT,
        !.concurrency = env.TEST_CONCURRENCY,
        !.max_test_count = env.MAX_PROXY_TEST_COUNT]

\* environments that keep a pass short: one endpoint
\* (LATENCY_TEST_URLS_COUNT=1), the other variables set or left unset
EnvChoices ==
    {[DefaultEnv EXCEPT !.LATENCY_TEST_URLS_COUNT = 1,
                        !.LATENCY_TEST_SAMPLES = s,
                        !.MIN_SUCCESS_RATE = r, !.MAX_LATENCY_MS = l,
                        !.TEST_COUNT = t, !.TEST_CONCURRENCY = k] :
        s \in {5, 3}, r \in {(8 * One) \div 10, (5 * One) \div 10},
        l \in {5000, 3000}, t \in {3, 2}, k \in {5, 0}}

\* the proxy of the list: a malformed address, or a well-formed one whose
\* requests succeed or fail freely
MainKinds ==
    {[valid |-> FALSE, net |-> Dead]} \cup
    {[valid |-> TRUE, net |-> [lats |-> {l}, primary |-> "any", fallback |-> "any"]] :
        l \in {100, 4000}}

\* a run of main with one proxy in the list
InitMain ==
    \E env \in EnvChoices, kind \in MainKinds :
        /\ config = main(env)
        /\ InitCommon(<<kind>>)

\* the list of a run of main: empty, or one proxy that is malformed, dead,
\* answering, or answering one fallback request only
RunKinds ==
    {[valid |-> FALSE, net |-> Dead],
     [valid |-> TRUE, net |-> Dead],
     [valid |-> TRUE, net |-> [lats |-> {100}, primary |-> "up", fallback |-> "up"]],
     [valid |-> TRUE, net |-> [lats |-> {100}, primary |-> "down", fallback |-> "one"]]}

Answers == {"ok", "http", "network"}

\* content hashes: of the cached list and of a newer one
Hashes == {1, 2}

\* a run of main: the cache file, the list host, the channels and the disk in
\* any condition; one endpoint and three samples keep the test short
InitRun ==
    /\ \E k \in {5, 0} :
          config = main([DefaultEnv EXCEPT !.LATENCY_TEST_URLS_COUNT = 1,
                                           !.LATENCY_TEST_SAMPLES = 3,
                                           !.TEST_CONCURRENCY = k])
    /\ \E n \in 0..1 : \E kinds \in [1..n -> RunKinds] : InitEngine(kinds)
    /\ pc = "main"
    /\ cache \in {None, 1}
    /\ \E list \in Hashes \cup {None}, w \in BOOLEAN :
          \/ \E n \in 0..MaxChannels : \E answers \in [1..n -> Answers] :
                remote = [list |-> list, channel_ids_ok |-> TRUE,
                          answers |-> answers, writable |-> w]
          \/ remote = [list |-> list, channel_ids_ok |-> FALSE,
                       answers |-> <<>>, writable |-> w]
    /\ frame = NewFrame
    /\ api = NewApi

\* one candidate, any configured endpoint and sample count, any weights
InitTask ==
    /\ \E k \in 0..1, u \in 0..MaxUrls, t \in 0..MaxTestCount,
          w \in WeightChoices, kind \in TaskKinds :
          /\ \/ Cardinality(kind.net.lats) = 1
             \/ kind.net.primary = "down"
             \/ u * t <= MaxMixedSamples
          /\ config = [DefaultConfig EXCEPT !.concurrency = k, !.test_urls = u,
                                            !.latency_test_samples = t,
                                            !.weights = w, !.max_test_count = 1]
          /\ InitCommon(<<kind>>)

\* the records ProxyEvaluator is handed: results of completed tasks
RecordPool(cfg) ==
    {create_failed_result(0, 6), ErrorRecord(0, "Invalid ip:port format"),
     WorkingResult(cfg, 0, <<100, 100, 100>>, 3, 3, FALSE),
     WorkingResult(cfg, 0, <<4000, 4000, 4000>>, 3, 3, FALSE),
     WorkingResult(cfg, 0, <<6000, 6000, 6000, 100>>, 4, 4, FALSE),
     WorkingResult(cfg, 0, <<100, 100, 100>>, 3, 6, TRUE)}

StatusCodes == {100, 199, 200, 204, 301, 399, 400, 404, 407, 500, 503}
ElapsedTimes == {0, 1, 10000} \cup Latencies

RequestOutcomes ==
    {Response(s, e) : s \in StatusCodes, e \in ElapsedTimes}
    \cup {Raises(k) : k \in Exceptions}

\* one call of test_proxy_connectivity, whatever requests.get does
InitProbe ==
    /\ config = DefaultConfig
    /\ \E outcome \in RequestOutcomes : net = <<outcome>>
    /\ proxies = <<[valid |-> TRUE]>>
    /\ pc = "probe"
    /\ submit_i = 1
    /\ future_map = {}
    /\ collected = {}
    /\ results = <<>>
    /\ task = <<>>
    /\ working_proxies = <<>>
    /\ ranked_proxies = <<>>
    /\ best_proxy = <<>>
    /\ done_order = <<>>
    /\ snapshot = {}
    /\ MainIdle

\* latency lists: every list of up to MaxStatLen samples, and the list with
\* one spike
StatValues == {50, 100, 500}
StatLists ==
    UNION {[1..n -> StatValues] : n \in 0..MaxStatLen}
    \cup {<<50, 60, 55, 500, 58, 62>>}

InitStats ==
    /\ config = DefaultConfig
    /\ \E data \in StatLists : net = <<data>>
    /\ proxies = <<>>
    /\ pc = "stats"
    /\ submit_i = 1
    /\ future_map = {}
    /\ collected = {}
    /\ results = <<>>
    /\ task = <<>>
    /\ working_proxies = <<>>
    /\ ranked_proxies = <<>>
    /\ best_proxy = <<>>
    /\ done_order = <<>>
    /\ snapshot = {}
    /\ MainIdle

InitEval ==
    /\ \E w \in WeightChoices, mc \in {0, 6, 8}, mq \in {0, 5, 8} :
          config = [DefaultConfig EXCEPT !.weights = w,
                       !.min_composite_score = (mc * One) \div 10,
                       !.min_qos_score = (mq * One) \div 10]
    /\ \E n \in 0..MaxRecs : \E pool \in [1..n -> RecordPool(config)] :
          results = [i \in 1..n |-> [pool[i] EXCEPT !.proxy = i]]
    /\ proxies = <<>>
    /\ net = <<>>
    /\ pc = "eval"
    /\ submit_i = 1
    /\ future_map = {}
    /\ collected = {}
    /\ task = <<>>
    /\ working_proxies = <<>>
    /\ ranked_proxies = <<>>
    /\ best_proxy = <<>>
    /\ done_order = <<>>
    /\ snapshot = {}
    /\ MainIdle

\* ---------------------------------------------------------- specifications
Next ==
    \/ CreateExecutor
    \/ Submit
    \/ SubmitInvalid
    \/ \E c \in Cands : TaskStart(c)
    \/ \E c \in Cands : Probe(c)
    \/ \E c \in Cands : ProbeReturn(c)
    \/ \E c \in Cands : EnterFallback(c)
    \/ \E c \in Cands : Evaluate(c)
    \/ \E c \in Cands : FallbackProbe(c)
    \/ \E c \in Cands : FallbackProbeReturn(c)
    \/ \E c \in Cands : FallbackEvaluate(c)
    \/ \E c \in Cands : Collect(c)
    \/ BatchReturn
    \/ SelectBest

NextEval == EvalRank \/ EvalSelect

NextProbe == ProbeCall

NextRun ==
    \/ MainStart
    \/ FetchList
    \/ ExtractProxies
    \/ Next
    \/ BestSelected
    \/ MainExcept
    \/ UpdateChannel
    \/ UpdateReturn
    \/ SaveCache

NextStats ==
    \/ PercentileCall
    \/ TrimmedMeanCall
    \/ RobustnessCall
    \/ ApiPerformanceCall

Spec == Init /\ [][Next]_vars
SpecPool == InitPool /\ [][Next]_vars
SpecTask == InitTask /\ [][Next]_vars
SpecEval == InitEval /\ [][NextEval]_vars
SpecProbe == InitProbe /\ [][NextProbe]_vars
SpecMain == InitMain /\ [][Next]_vars
SpecSlice == InitSlice /\ [][Next]_vars
SpecStats == InitStats /\ [][NextStats]_vars
SpecRun == InitRun /\ [][NextRun]_vars

\* ------------------------------------------------------------ properties
Decided(c) == task[c].st \in {"fallback", "done", "raised"}
TookFallback(c) == task[c].st = "fallback" \/ task[c].eval_pass = "fallback"
Finished(c) == task[c].st \in {"done", "raised"}

\* the trigger, stated on the counters: fewer than 3 successes, no sample at
\* all, or successes / total below 3/10
Trigger(c) ==
    \/ task[c].working_tests < 3
    \/ total_tests = 0
    \/ 10 * task[c].working_tests < 3 * total_tests

InUnit(x) == 0 <= x /\ x <= One

\* C1: once the primary pass has issued all its probes, the candidate is in
\* (or went through) the fallback pass exactly when successful < 3, or the
\* pass had no sample, or successful / total < 0.3; a candidate that did not
\* take the fallback pass has issued no fallback probe and its record is
\* built from the primary samples.
C1_FallbackIffTrigger ==
    \A c \in Cands :
        /\ ~Decided(c) => task[c].fb_probes = 0 /\ task[c].evals = 0
        /\ Decided(c) =>
              /\ task[c].probes = total_tests
              /\ TookFallback(c) <=> Trigger(c)
              /\ ~TookFallback(c) =>
                    /\ task[c].fb_probes = 0
                    /\ task[c].eval_pass = "primary"
                    /\ task[c].eval_samples = task[c].all_results
                    /\ task[c].result.working_tests = task[c].working_tests
                    /\ task[c].result.test_count = total_tests
                    /\ ~task[c].result.is_fallback

\* a candidate with at least 3 successes entered the fallback pass on the
\* success rate alone
C1_Witness ==
    \E c \in Cands : /\ task[c].st = "fallback"
                     /\ task[c].working_tests >= 3
                     /\ task[c].fb_probes > 0

\* C2: every record of the results list and of the ranked list has
\* composite_score and qos_score within [0, 1], and both are 0 for a record
\* without a successful sample.
C2_ScoresInUnit ==
    /\ \A i \in DOMAIN results :
          /\ InUnit(results[i].composite_score)
          /\ InUnit(results[i].qos_score)
          /\ results[i].working_tests = 0 =>
                results[i].composite_score = 0 /\ results[i].qos_score = 0
    /\ \A i \in DOMAIN ranked_proxies :
          /\ InUnit(ranked_proxies[i].composite_score)
          /\ InUnit(ranked_proxies[i].qos_score)

\* weights summing to 3: a ranked working record whose weighted sum exceeds 1
\* and was clamped
C2_Witness ==
    /\ pc = "returned"
    /\ config.weights.performance + config.weights.stability
       + config.weights.availability > 100
    /\ \E i \in DOMAIN ranked_proxies :
          /\ ranked_proxies[i].is_working
          /\ ranked_proxies[i].composite_score = One
          /\ ranked_proxies[i].qos_score < One

\* C3: scoring the statistics of at least one successful sample returns a
\* number (it never raises).
C3_ScoringReturnsNumber ==
    \A c \in Cands :
        (task[c].evals > 0 /\ Len(task[c].eval_samples) >= 1) =>
            /\ task[c].st = "done"
            /\ InUnit(task[c].result.composite_score)

\* C4: a candidate whose primary probes all failed and whose fallback probes
\* all failed ends with is_working = false, both scores 0 and
\* is_fallback = true.
C4_AllFailedIsFallback ==
    \A c \in Cands :
        (/\ Finished(c)
         /\ task[c].working_tests = 0
         /\ task[c].fb_probes = total_fallback_tests
         /\ task[c].fb_working_tests = 0) =>
            /\ ~task[c].result.is_working
            /\ task[c].result.composite_score = 0
            /\ task[c].result.qos_score = 0
            /\ task[c].result.is_fallback

\* the results list with its records in candidate order
RECURSIVE InsertByProxy(_, _)
InsertByProxy(x, s) ==
    IF s = <<>> THEN <<x>>
    ELSE IF x.proxy < Head(s).proxy THEN <<x>> \o s
    ELSE <<Head(s)>> \o InsertByProxy(x, Tail(s))

RECURSIVE ByProxy(_)
ByProxy(s) == IF s = <<>> THEN <<>> ELSE InsertByProxy(Head(s), ByProxy(Tail(s)))

\* C5: the ranked order and the winner are those of the run in which the
\* same tasks complete in candidate order, whatever order they completed in.
C5_OrderIndependent ==
    pc = "returned" =>
        LET inorder == SelectSeq(ByProxy(results), Qualifies)
        IN /\ ranked_proxies = rank_proxies(config.weights, inorder)
           /\ best_proxy = select_best_proxy(config.weights, inorder,
                                             config.min_composite_score,
                                             config.min_qos_score)

Strict(proxy) ==
    /\ proxy.is_working
    /\ proxy.composite_score >= config.min_composite_score
    /\ proxy.qos_score >= config.min_qos_score

\* C6: select_best_proxy returns the first record in rank order that is
\* working and meets both floors; without such a record, the first working
\* record in rank order; None exactly when no record is working.
C6_SelectFirstQualifying ==
    pc = "selected" =>
        LET R == ranked_proxies
            S == {i \in DOMAIN R : Strict(R[i])}
            W == {i \in DOMAIN R : R[i].is_working}
        IN /\ S # {} =>
                \E i \in S : /\ best_proxy = <<R[i]>>
                             /\ \A j \in S : i <= j
           /\ (S = {} /\ W # {}) =>
                \E i \in W : /\ best_proxy = <<R[i]>>
                             /\ \A j \in W : i <= j
           /\ best_proxy = <<>> <=>
                \A i \in DOMAIN results : ~results[i].is_working

\* the record chosen is not the top-ranked one: a higher-composite working
\* record missed the QoS floor
C6_Witness ==
    /\ pc = "selected"
    /\ best_proxy # <<>>
    /\ best_proxy[1] # ranked_proxies[1]
    /\ ranked_proxies[1].composite_score > best_proxy[1].composite_score
    /\ ranked_proxies[1].qos_score < config.min_qos_score

\* C7: rank_proxies returns a permutation of its input, working records
\* first, composite_score non-increasing among records of equal is_working,
\* and records with equal (is_working, composite_score) in input order
\* (a record's proxy is its position in the input list).
C7_RankStablePermutation ==
    pc \in {"ranked", "selected"} =>
        LET R == ranked_proxies
        IN /\ Len(R) = Len(results)
           /\ \A i \in DOMAIN results : \E j \in DOMAIN R : R[j] = results[i]
           /\ \A i, j \in DOMAIN R : i < j =>
                 /\ R[j].is_working => R[i].is_working
                 /\ R[i].is_working = R[j].is_working =>
                       R[i].composite_score >= R[j].composite_score
                 /\ (/\ R[i].is_working = R[j].is_working
                     /\ R[i].composite_score = R[j].composite_score) =>
                       R[i].proxy < R[j].proxy

\* a non-working record ahead of working ones in the input, and two working
\* records with equal scores
C7_Witness ==
    /\ pc = "ranked"
    /\ Len(results) >= 3
    /\ ~results[1].is_working
    /\ results[2].is_working /\ results[3].is_working
    /\ results[2].composite_score = results[3].composite_score
    /\ ranked_proxies[1].proxy = 2

\* C8: when batch_test_proxies has returned, every candidate has exactly one
\* record; the record of a candidate with a malformed address or whose task
\* raised has is_working = false and both scores 0; and every well-formed
\* candidate issued all its probes and ran to completion.
C8_FailureIsolated ==
    pc \in {"tested", "returned"} =>
        \A c \in Cands :
            /\ Cardinality({i \in DOMAIN results : results[i].proxy = c}) = 1
            /\ candidates[c].valid =>
                  /\ Finished(c)
                  /\ task[c].probes = total_tests
                  /\ task[c].st = "done" =>
                        \E i \in DOMAIN results :
                            results[i] = task[c].result
            /\ (~candidates[c].valid \/ task[c].st = "raised") =>
                  \E i \in DOMAIN results :
                      /\ results[i].proxy = c
                      /\ ~results[i].is_working
                      /\ results[i].composite_score = 0
                      /\ results[i].qos_score = 0
                      /\ results[i].error # ""

\* one task raised and a sibling task still produced a working record
C8_Witness ==
    /\ pc = "tested"
    /\ \E c, d \in Cands :
          /\ task[c].st = "raised"
          /\ task[d].st = "done"
          /\ task[d].result.is_working
          /\ \E i \in DOMAIN results : results[i] = task[d].result

\* C9: find_best_proxy_by_latency_enhanced never raises.
C9_NeverRaises == pc # "raised"

\* the per-candidate states: Pending (none, queued), Sampling,
\* FallbackSampling, and Evaluated/Done (done, or raised by the scoring)
StateOrder ==
    {<<"none", "queued">>, <<"queued", "sampling">>,
     <<"sampling", "fallback">>, <<"sampling", "done">>,
     <<"sampling", "raised">>, <<"fallback", "done">>,
     <<"fallback", "raised">>}

CandidateStep(c) ==
    /\ task'[c].st # task[c].st => <<task[c].st, task'[c].st>> \in StateOrder
    \* the fallback pass is entered once, after the last primary probe
    /\ task'[c].st = "fallback" /\ task[c].st # "fallback" =>
          /\ task[c].probes = total_tests
          /\ task[c].fb_probes = 0
    \* probes are issued only in the state of their pass
    /\ task'[c].probes # task[c].probes => task[c].st = "sampling"
    /\ task'[c].fb_probes # task[c].fb_probes => task[c].st = "fallback"
    \* the samples are evaluated once, on entering Done, and they are the
    \* samples of the pass that ends
    /\ task'[c].evals # task[c].evals =>
          /\ task[c].evals = 0 /\ task'[c].evals = 1
          /\ task[c].st \in {"sampling", "fallback"}
          /\ task'[c].st \in {"done", "raised"}
          /\ task'[c].eval_samples =
                IF task[c].st = "fallback" THEN task[c].fallback_results
                ELSE task[c].all_results
    /\ task'[c].st \in {"done", "raised"} => task'[c].evals = 1

\* C10: a candidate only moves Pending -> Sampling -> (FallbackSampling ->)
\* Done; the fallback pass is entered at most once and only after the last
\* primary probe; the samples are evaluated exactly once, and they are the
\* samples of the one pass that produced the record.
C10_CandidateLifecycle == [][\A c \in Cands : CandidateStep(c)]_vars

\* a candidate went through the fallback pass and was evaluated on samples
\* that differ from its primary samples
C10_Witness ==
    \E c \in Cands :
        /\ task[c].st = "done"
        /\ task[c].eval_pass = "fallback"
        /\ task[c].all_results # <<>>
        /\ task[c].eval_samples = task[c].fallback_results
        /\ task[c].eval_samples # task[c].all_results

\* the <<url, i>> of the k-th request of loops over count samples per endpoint
NthRequest(k, count) == <<(k - 1) \div count + 1, (k - 1) % count>>

InOrder(issued, count) ==
    \A k \in DOMAIN issued : issued[k] = NthRequest(k, count)

\* C11: at most concurrency tasks are running; a running task waits for at
\* most one request, a request is sent only when the one before it has
\* returned, and the requests go out endpoint by endpoint: all samples of one
\* endpoint, in order, before the first sample of the next.
C11_BoundedSequential ==
    /\ Cardinality(Running) <= config.concurrency
    /\ \A c \in Cands :
          /\ task[c].in_flight <= 1
          /\ task[c].in_flight > 0 => c \in Running
          /\ Len(task[c].issued) + Len(task[c].fb_issued)
             = task[c].probes + task[c].fb_probes + task[c].in_flight
          /\ task[c].fb_issued # <<>> => Len(task[c].issued) = task[c].probes
          /\ InOrder(task[c].issued, config.latency_test_samples)
          /\ InOrder(task[c].fb_issued, FallbackTestCount)

\* one worker, two submitted candidates: one waits for a request to its
\* second endpoint while the other is still queued
C11_Witness ==
    /\ config.concurrency = 1
    /\ \E c, d \in Cands :
          /\ task[c].st = "sampling"
          /\ task[c].in_flight = 1
          /\ task[c].issued[Len(task[c].issued)][1] = 2
          /\ task[d].st = "queued"

\* the step is one of the thread that called batch_test_proxies
CallerStep == pc' # pc \/ submit_i' # submit_i \/ collected' # collected

\* C12: a step changes the frame of at most one task, and a step that changes
\* a task's frame changes neither the results list nor anything the calling
\* thread owns; the results list changes only by one append made by the
\* calling thread; and when batch_test_proxies returns, the list holds
\* exactly one record for every candidate.
C12_NoSharedState ==
    [][/\ \A c, d \in Cands :
             (c # d /\ task'[c] # task[c]) => task'[d] = task[d]
       /\ task' # task =>
             /\ results' = results
             /\ collected' = collected
             /\ (\E c \in Cands : task'[c].st # task[c].st /\ task'[c].st = "queued")
                \/ ~CallerStep
       /\ (pc \in {"start", "submit", "collect"} /\ results' # results) =>
             /\ CallerStep
             /\ task' = task
             /\ Len(results') = Len(results) + 1
             /\ SubSeq(results', 1, Len(results)) = results
       /\ pc' = "tested" =>
             /\ Len(results') = Len(candidates)
             /\ \A c \in Cands :
                   Cardinality({i \in DOMAIN results' : results'[i].proxy = c}) = 1
      ]_vars

\* two workers: both tasks produced a working record and the batch returned
\* them in the order the tasks finished, not the order they were submitted
C12_Witness ==
    /\ pc = "tested"
    /\ Len(results) = 2
    /\ results[1].proxy = 2 /\ results[1].is_working
    /\ results[2].proxy = 1 /\ results[2].is_working

\* the call of find_best_proxy_by_latency_enhanced is over: batch_test_proxies
\* has returned, or an exception has ended the calling thread
CallOver == pc \in {"tested", "returned", "raised"}

\* C13: every task runs to its end before batch_test_proxies is over: once
\* the call is over, every candidate with a well-formed address has reached
\* Done and batch_test_proxies has returned one record for every candidate.
C13_NoCancellation ==
    CallOver =>
        /\ \A c \in Cands : candidates[c].valid => Finished(c)
        /\ Len(results) = Len(candidates)

\* C14: a record of the primary pass stands for endpoints x samples probes and
\* does not carry is_fallback; a record of the fallback pass stands for the
\* 6 fallback probes, which are fewer than the probes of the primary pass;
\* and a record with is_fallback = true was computed from the samples of the
\* fallback pass alone.
C14_SampleSetSize ==
    \A c \in Cands :
        task[c].st = "done" =>
            /\ task[c].eval_pass = "primary" =>
                  /\ task[c].result.test_count
                     = config.test_urls * config.latency_test_samples
                  /\ task[c].probes = task[c].result.test_count
                  /\ task[c].fb_probes = 0
                  /\ ~task[c].result.is_fallback
            /\ task[c].eval_pass = "fallback" =>
                  /\ task[c].result.test_count = 6
                  /\ task[c].fb_probes = 6
                  /\ 6 < config.test_urls * config.latency_test_samples
            /\ task[c].result.is_fallback =>
                  /\ task[c].eval_pass = "fallback"
                  /\ task[c].eval_samples = task[c].fallback_results
                  /\ Len(task[c].eval_samples) = task[c].result.working_tests

\* C15: during a pass the latency list holds one value per working probe, and
\* no more working probes than probes; the record of a pass has
\* success_rate = working_tests / test_count with
\* 0 <= working_tests <= test_count and 0 <= success_rate <= 1, and the
\* statistics were computed from exactly working_tests latency values.
C15_RateAndSampleCount ==
    \A c \in Cands :
        /\ Len(task[c].all_results) = task[c].working_tests
        /\ task[c].working_tests <= task[c].probes
        /\ Len(task[c].fallback_results) = task[c].fb_working_tests
        /\ task[c].fb_working_tests <= task[c].fb_probes
        /\ task[c].st = "done" =>
              LET r == task[c].result
              IN /\ r.test_count > 0
                 /\ 0 <= r.working_tests /\ r.working_tests <= r.test_count
                 /\ r.success_rate = (r.working_tests * One) \div r.test_count
                 /\ InUnit(r.success_rate)
                 /\ Len(task[c].eval_samples) = r.working_tests
                 /\ r.is_working <=> r.working_tests > 0

\* a fallback record for which some probes worked and some did not
C15_Witness ==
    \E c \in Cands :
        /\ task[c].st = "done"
        /\ task[c].eval_pass = "fallback"
        /\ task[c].result.working_tests = 4
        /\ task[c].result.test_count = 6
        /\ Len(task[c].eval_samples) = 4

BasicUndefined(b) ==
    /\ b.mean_latency_ms = None /\ b.median_latency_ms = None
    /\ b.min_latency_ms = None /\ b.max_latency_ms = None
    /\ b.p25_latency_ms = None /\ b.p75_latency_ms = None
    /\ b.p95_latency_ms = None /\ b.p99_latency_ms = None

BasicDefined(b) ==
    /\ b.mean_latency_ms # None /\ b.median_latency_ms # None
    /\ b.min_latency_ms # None /\ b.max_latency_ms # None
    /\ b.p25_latency_ms # None /\ b.p75_latency_ms # None
    /\ b.p95_latency_ms # None /\ b.p99_latency_ms # None

VariabilityUndefined(v) ==
    /\ v.std_dev_ms = None /\ v.coefficient_variation = None
    /\ v.iqr_ms = None /\ v.robust_std_dev_ms = None /\ v.mad_ms = None

\* C16: in the record a pass built, the basic statistics are all undefined
\* when the pass had no successful sample and all defined when it had one;
\* the variability statistics are all undefined when it had fewer than 2;
\* and a record without a successful sample has success_rate 0, no mean
\* latency and no statistics.
C16_UndefinedStatistics ==
    \A c \in Cands :
        task[c].evals > 0 =>
            LET r == task[c].result
                n == Len(task[c].eval_samples)
                b == r.enhanced_stats.basic_stats
                v == r.enhanced_stats.variability_stats
            IN /\ BasicUndefined(b) <=> n = 0
               /\ BasicDefined(b) <=> n > 0
               /\ n < 2 => VariabilityUndefined(v)
               /\ n = 0 =>
                     /\ r.success_rate = 0
                     /\ r.avg_latency_ms = None
                     /\ ~r.has_stats
                     /\ ~r.is_working

\* a pass with exactly one successful sample: its basic statistics are
\* defined and its variability statistics are not
C16_Witness ==
    \E c \in Cands :
        /\ task[c].evals > 0
        /\ Len(task[c].eval_samples) = 1
        /\ task[c].result.has_stats
        /\ BasicDefined(task[c].result.enhanced_stats.basic_stats)
        /\ VariabilityUndefined(task[c].result.enhanced_stats.variability_stats)

\* C17: test_proxy_connectivity returns a dict for whatever requests.get
\* does; is_working is true exactly for a response with status in [200, 400)
\* and a captured latency, and then latency_ms is that latency; without a
\* response, latency_ms is undefined and an error is reported.
C17_ProberOutcome ==
    pc = "probed" =>
        LET outcome == net[1]
            result == results[1]
        IN /\ result.is_working \in BOOLEAN
           /\ result.is_working <=>
                 /\ outcome.kind = "response"
                 /\ 200 <= outcome.status_code /\ outcome.status_code < 400
                 /\ result.latency_ms # None
           /\ result.is_working =>
                 /\ result.latency_ms = outcome.elapsed
                 /\ result.latency_ms > 0
           /\ outcome.kind = "response" =>
                 result.status_code = outcome.status_code
           /\ outcome.kind # "response" =>
                 /\ ~result.is_working
                 /\ result.latency_ms = None
                 /\ result.error # "None"

\* a response with a good status but no captured latency is not working
C17_Witness ==
    /\ pc = "probed"
    /\ net[1].kind = "response"
    /\ net[1].status_code = 204
    /\ net[1].elapsed = 0
    /\ ~results[1].is_working
    /\ results[1].latency_ms = None

\* working, success rate at least min_success_rate, mean latency at most
\* max_latency_ms (statistics are hundredths of a millisecond)
Passes(r) ==
    /\ r.is_working
    /\ r.success_rate >= config.min_success_rate
    /\ r.avg_latency_ms # None
    /\ r.avg_latency_ms <= 100 * config.max_latency_ms

\* C18: find_best_proxy_by_latency_enhanced returns at most one record; the
\* record returned is one of the tested records, is working, has
\* success_rate >= min_success_rate and mean latency <= max_latency_ms; and
\* None is returned exactly when no tested record meets these three.
C18_ThresholdsDecide ==
    pc = "returned" =>
        /\ Len(best_proxy) <= 1
        /\ best_proxy # <<>> =>
              /\ Passes(best_proxy[1])
              /\ \E i \in DOMAIN results : results[i] = best_proxy[1]
        /\ best_proxy = <<>> <=>
              \A i \in DOMAIN results : ~Passes(results[i])

\* the record returned meets the three thresholds and misses the composite
\* floor
C18_Witness ==
    /\ pc = "returned"
    /\ best_proxy # <<>>
    /\ Passes(best_proxy[1])
    /\ best_proxy[1].composite_score < config.min_composite_score

WeightSum(w) == w.performance + w.stability + w.availability

\* C19: with weights of positive sum, the composite score of a working record
\* is the weighted sum of its three sub-scores taken with each weight
\* divided by the sum of the weights (clamped to [0, 1]).
C19_WeightsNormalised ==
    \A c \in Cands :
        (/\ task[c].st = "done"
         /\ task[c].result.is_working
         /\ WeightSum(config.weights) > 0) =>
            LET stats == task[c].result.enhanced_stats
                w == config.weights
                performance_score == calculate_performance_score(stats.basic_stats)
                stability_score ==
                    calculate_stability_score(stats.variability_stats,
                                              stats.robustness_stats)
                availability_score ==
                    calculate_availability_score(stats.success_rate,
                                                 stats.api_performance)
            IN task[c].result.composite_score
               = Min2(One, Max2(0,
                     (performance_score * w.performance
                      + stability_score * w.stability
                      + availability_score * w.availability)
                     \div WeightSum(w)))

\* working, with the success rate and the mean latency the environment asks
\* for
PassesEnv(r) ==
    /\ r.is_working
    /\ r.success_rate >= config.env.MIN_SUCCESS_RATE
    /\ r.avg_latency_ms # None
    /\ r.avg_latency_ms <= 100 * config.env.MAX_LATENCY_MS

\* C20: in a run of main, the records kept for selection are the tested
\* records that are working with success rate >= MIN_SUCCESS_RATE and mean
\* latency <= MAX_LATENCY_MS, and a task's primary pass sends TEST_COUNT
\* requests to each endpoint.
C20_EnvironmentInEffect ==
    /\ pc = "returned" =>
          /\ \A i \in DOMAIN working_proxies : PassesEnv(working_proxies[i])
          /\ \A i \in DOMAIN results :
                PassesEnv(results[i]) =>
                    \E j \in DOMAIN working_proxies :
                        working_proxies[j].proxy = results[i].proxy
    /\ \A c \in Cands :
          Decided(c) => task[c].probes = config.test_urls * config.env.TEST_COUNT

\* the candidates a request was sent to, or whose task was submitted or run
Touched ==
    {c \in DOMAIN task :
        \/ task[c].st # "none"
        \/ task[c].issued # <<>> \/ task[c].fb_issued # <<>>
        \/ c \in future_map}

\* C21: only the first max_test_count proxies of the list are tested, in list
\* order: no task is submitted and no request is sent for a later proxy, every
\* record is about one of the first max_test_count, and so is the winner.
C21_OnlyFirstTested ==
    /\ \A c \in Touched : c <= config.max_test_count /\ c < submit_i
    /\ submit_i <= Min2(Len(proxies), config.max_test_count) + 1
    /\ \A i \in DOMAIN results : results[i].proxy \in 1..config.max_test_count
    /\ \A i \in DOMAIN best_proxy :
          best_proxy[i].proxy \in 1..Min2(Len(proxies), config.max_test_count)

\* a list longer than max_test_count whose last proxy is well-formed, a winner
\* chosen among the first ones
C21_Witness ==
    /\ Len(proxies) > config.max_test_count
    /\ proxies[Len(proxies)].valid
    /\ net[Len(proxies)].primary = "up"
    /\ pc = "returned"
    /\ best_proxy # <<>>

\* the call that has returned, if any
Returned(fn) == pc = "computed" /\ results[1].call.fn = fn

SeqMin(L) == CHOOSE x \in {L[i] : i \in DOMAIN L} : \A i \in DOMAIN L : x <= L[i]
SeqMax(L) == CHOOSE x \in {L[i] : i \in DOMAIN L} : \A i \in DOMAIN L : x >= L[i]

\* linear interpolation at index (n - 1) * q / 100, in hundredths:
\* L[floor] + (index - floor) * (L[ceil] - L[floor]), indices from 0
Interpolated(L, q) ==
    LET n == Len(L)
        index100 == (n - 1) * q
        floor == CHOOSE k \in 0..(n - 1) : 100 * k <= index100 /\ index100 < 100 * (k + 1)
        ceil == CHOOSE k \in 0..(n - 1) : 100 * (k - 1) < index100 /\ index100 <= 100 * k
    IN 100 * L[floor + 1] + (index100 - 100 * floor) * (L[ceil + 1] - L[floor + 1])

\* C22: for a non-empty sorted list, _percentile returns the minimum for
\* q <= 0, the maximum for q >= 100 and otherwise the linear interpolation
\* between the elements at the floor and the ceiling of (n - 1) * q / 100; the
\* result lies between the minimum and the maximum, and the list is left as it
\* was.
C22_Percentile ==
    [][(pc = "stats" /\ net[1] # <<>> /\ Returned("_percentile")') =>
          LET L == net[1]
              q == results'[1].call.arg
              r == results'[1].value
          IN /\ net' = net
             /\ q <= 0 => r = 100 * SeqMin(L)
             /\ q >= 100 => r = 100 * SeqMax(L)
             /\ (0 < q /\ q < 100) => r = Interpolated(L, q)
             /\ 100 * SeqMin(L) <= r /\ r <= 100 * SeqMax(L)]_vars

\* a percentile strictly between two different elements was returned
C22_Witness ==
    /\ Returned("_percentile")
    /\ Len(net[1]) >= 2
    /\ \A i \in DOMAIN net[1] : results[1].value # 100 * net[1][i]
    /\ results[1].call.arg = 95

\* the k-th smallest sample of L, k from 1
KthSmallest(L, k) ==
    CHOOSE x \in {L[i] : i \in DOMAIN L} :
        /\ Cardinality({i \in DOMAIN L : L[i] < x}) < k
        /\ k <= Cardinality({i \in DOMAIN L : L[i] <= x})

\* r is total / count in hundredths, rounded down
IsMean(r, total, count) == r * count <= 100 * total /\ 100 * total < (r + 1) * count

\* the number of samples a ratio of trim_pct percent drops at each end
TrimCount(n, trim_pct) ==
    CHOOSE k \in 0..n : 100 * k <= n * trim_pct /\ n * trim_pct < 100 * (k + 1)

\* C23: for a non-empty list, _trimmed_mean with ratio 0 is the arithmetic
\* mean; with a ratio r > 0 it is the mean of the samples left when the
\* int(n * r) lowest and the int(n * r) highest are dropped, and the median when
\* that would drop at least half of the samples.
C23_TrimmedMean ==
    (Returned("_trimmed_mean") /\ net[1] # <<>>) =>
        LET L == net[1]
            n == Len(L)
            trim_pct == results[1].call.arg
            r == results[1].value
            t == TrimCount(n, trim_pct)
            kept == [k \in 1..(n - 2 * t) |-> KthSmallest(L, k + t)]
        IN /\ trim_pct = 0 => IsMean(r, Sum(L), n)
           /\ (trim_pct > 0 /\ 2 * t < n) => IsMean(r, Sum(kept), n - 2 * t)
           /\ (trim_pct > 0 /\ 2 * t >= n) =>
                 r = 50 * (KthSmallest(L, (n + 1) \div 2)
                           + KthSmallest(L, n \div 2 + 1))

\* one sample was dropped at each end and the result is not the plain mean
C23_Witness ==
    /\ Returned("_trimmed_mean")
    /\ Len(net[1]) = 4
    /\ results[1].call.arg = 25
    /\ ~IsMean(results[1].value, Sum(net[1]), 4)

\* r is count / n as a rate, rounded down
IsRate(r, count, n) == r * n <= count * One /\ count * One < (r + 1) * n

SortedOf(L) == [k \in 1..Len(L) |-> KthSmallest(L, k)]

\* the samples outside [p25 - 1.5 * IQR, p75 + 1.5 * IQR]
Outliers(L) ==
    LET p25 == Interpolated(SortedOf(L), 25)
        p75 == Interpolated(SortedOf(L), 75)
        iqr == p75 - p25
    IN {i \in DOMAIN L : \/ 2 * (100 * L[i] - p25) < -3 * iqr
                         \/ 2 * (100 * L[i] - p75) > 3 * iqr}

SpikeScenario == <<50, 60, 55, 500, 58, 62>>

\* C24: for a non-empty list of successful samples, spike_rate is the
\* fraction of samples strictly above the spike threshold and outlier_ratio the
\* fraction outside [p25 - 1.5 * IQR, p75 + 1.5 * IQR], both within [0, 1]; for
\* [50, 60, 55, 500, 58, 62] and a threshold of 100 ms spike_rate is 1/6 and
\* outlier_ratio is positive.
C24_SpikesAndOutliers ==
    /\ (Returned("calculate_api_performance_stats") /\ net[1] # <<>>) =>
          LET L == net[1]
              spike_rate == results[1].value.spike_rate
              spikes == {i \in DOMAIN L : L[i] > results[1].call.arg}
          IN /\ IsRate(spike_rate, Cardinality(spikes), Len(L))
             /\ 0 <= spike_rate /\ spike_rate <= One
             /\ (L = SpikeScenario /\ results[1].call.arg = 100) =>
                   6 * spike_rate <= One /\ One < 6 * (spike_rate + 1)
    /\ (Returned("calculate_robustness_stats") /\ net[1] # <<>>) =>
          LET L == net[1]
              outlier_ratio == results[1].value.outlier_ratio
          IN /\ IsRate(outlier_ratio, Cardinality(Outliers(L)), Len(L))
             /\ 0 <= outlier_ratio /\ outlier_ratio <= One
             /\ L = SpikeScenario => outlier_ratio > 0

\* the list with one spike, measured against a threshold of 100 ms
C24_Witness ==
    /\ Returned("calculate_api_performance_stats")
    /\ net[1] = SpikeScenario
    /\ results[1].call.arg = 100
    /\ results[1].value.spike_rate > 0

\* C25: when the batch has returned, a candidate whose fallback pass had at
\* least one successful probe has a record with is_working and is_fallback
\* true, working_tests equal to the number of successful fallback probes, and
\* the scores of the fallback samples.
C25_FallbackSuccessIsWorking ==
    pc = "tested" =>
        \A c \in Cands :
            (task[c].eval_pass = "fallback" /\ task[c].fb_working_tests >= 1) =>
                \E i \in DOMAIN results :
                    LET r == results[i]
                        stats == calculate_enhanced_stats(config,
                                     task[c].fallback_results,
                                     task[c].fb_working_tests,
                                     total_fallback_tests)
                    IN /\ r.proxy = c
                       /\ r.is_working
                       /\ r.is_fallback
                       /\ r.working_tests = task[c].fb_working_tests
                       /\ r.composite_score # Raised
                       /\ r.composite_score =
                              calculate_composite_score(config.weights, stats)
                       /\ r.qos_score = calculate_qos_score(config.weights, stats)

\* C26: every record of the batch that is working and not marked is_fallback
\* has working_tests >= 3 and success_rate >= 0.3, and its variability
\* statistics are those of at least 2 samples.
C26_PrimaryRecordHasSamples ==
    \A i \in DOMAIN results :
        (results[i].is_working /\ ~results[i].is_fallback) =>
            /\ results[i].working_tests >= 3
            /\ 10 * results[i].success_rate >= 3 * One
            /\ results[i].has_stats
            /\ results[i].enhanced_stats.variability_stats.std_dev_ms # None
            /\ results[i].enhanced_stats.variability_stats.coefficient_variation # None
            /\ Len(task[results[i].proxy].eval_samples) >= 2

\* a primary record with exactly 3 successful samples among more requests
C26_Witness ==
    /\ pc \in {"tested", "returned"}
    /\ \E i \in DOMAIN results :
          /\ results[i].is_working
          /\ ~results[i].is_fallback
          /\ results[i].working_tests = 3
          /\ results[i].test_count > 3

\* every channel of the list was sent one request, in list order, and took
\* the new proxy
AllChannelsUpdated ==
    /\ api.requests = [i \in 1..Len(remote.answers) |-> i]
    /\ api.updated = 1..Len(remote.answers)
    /\ \A i \in DOMAIN remote.answers : remote.answers[i] = "ok"

NothingDone ==
    /\ \A c \in DOMAIN task :
          task[c].st = "none" /\ task[c].issued = <<>> /\ task[c].fb_issued = <<>>
    /\ api = NewApi

\* C27: main writes the cached hash only after a winner was selected and
\* every channel update succeeded, and writes the hash of the fetched list;
\* when the fetched hash equals the cached one, no request is sent to a proxy
\* or to a channel; when the fetch fails, no proxy is found, no winner is
\* selected or a channel update fails, the cache is what it was read as.
C27_CacheAfterSuccess ==
    [][/\ cache' # cache =>
             /\ pc = "save"
             /\ cache' = frame.current_md5
             /\ best_proxy # <<>>
             /\ AllChannelsUpdated
       /\ frame'.outcome = "unchanged" =>
             /\ frame'.current_md5 = cache'
             /\ cache' = cache
             /\ NothingDone'
       /\ (frame.current_md5 # None /\ frame.current_md5 = frame.cached_md5) =>
             /\ pc = "exit"
             /\ NothingDone
       /\ frame'.outcome \in {"fetch failed", "no proxies", "no best proxy",
                               "update failed", "failed"} =>
             /\ cache' = cache
             /\ frame'.current_md5 # None =>
                   cache' = frame'.cached_md5 /\ cache' # frame'.current_md5]_vars

\* the list changed, a winner was found, two channels were updated and the
\* new hash was written
C27_Witness ==
    /\ pc = "exit"
    /\ frame.outcome = "done"
    /\ frame.cached_md5 # None
    /\ cache = frame.current_md5
    /\ Len(api.requests) = 2

\* C29: update_channel_proxy sends the updates in list order and stops at the
\* first one that fails: the channels before it are updated, no request is sent
\* for a later channel, main ends in its except clause and the cache is not
\* written.
C29_StopsAtFirstFailure ==
    /\ \A k \in DOMAIN api.requests : api.requests[k] = k
    /\ \A k \in 1..(Len(api.requests) - 1) :
          remote.answers[k] = "ok" /\ k \in api.updated
    /\ \A k \in DOMAIN api.requests :
          remote.answers[k] # "ok" =>
              /\ k = Len(api.requests)
              /\ pc = "exit"
              /\ frame.outcome = "update failed"
              /\ cache = frame.cached_md5
              /\ cache # frame.current_md5
              /\ api.updated \subseteq 1..k
              /\ 1..(k - 1) \subseteq api.updated

\* the first of two channels was updated, the second failed
C29_Witness ==
    /\ pc = "exit"
    /\ Len(remote.answers) > Len(api.requests)
    /\ Len(api.requests) = 2
    /\ 1 \in api.updated
    /\ remote.answers[2] = "http"

\* a record with its two scores blanked
Unscored(r) == [r EXCEPT !.composite_score = 0, !.qos_score = 0]

\* a step in which rank_proxies ran to its end
RankStep ==
    \/ pc = "eval" /\ pc' = "ranked"
    \/ pc = "tested" /\ pc' = "returned" /\ working_proxies' # <<>>

\* C28: rank_proxies leaves the list it is given in its order and changes no
\* field of a record other than composite_score and qos_score; the scores it
\* computes for a working record are the scores stored when the record was
\* evaluated; and ranking its own output gives the same order again.
C28_RankIdempotent ==
    [][RankStep =>
          /\ Len(results') = Len(results)
          /\ \A i \in DOMAIN results :
                /\ Unscored(results'[i]) = Unscored(results[i])
                /\ results[i].is_working =>
                      /\ results'[i].composite_score = results[i].composite_score
                      /\ results'[i].qos_score = results[i].qos_score
          /\ rank_proxies(config.weights, ranked_proxies') = ranked_proxies'
          /\ \A i \in DOMAIN ranked_proxies' :
                \E j \in DOMAIN results : ranked_proxies'[i] = results[j]]_vars

\* a ranking under weights other than the default ones that moved a working
\* record ahead of the record before it
C28_Witness ==
    /\ pc = "ranked"
    /\ config.weights # DefaultWeights
    /\ Len(results) >= 2
    /\ ranked_proxies # results
    /\ ranked_proxies[1].is_working
    /\ ranked_proxies[1].composite_score > 0

====
